---- MODULE Spec2Model ----
(***************************************************************************)
(* A model of the ReAct agent of this repository: the response parser      *)
(* (ReActAgent._parse_response), tool dispatch (ReActAgent._execute_tool), *)
(* the completion client (OpenRouterClient.chat) and the control loop      *)
(* (ReActAgent.run).                                                       *)
(*                                                                         *)
(* Text is modelled as a sequence of tokens.  A token is a piece of text   *)
(* that the regular expressions of the parser never split: a protocol      *)
(* marker, one white-space character, an identifier, a brace, a JSON       *)
(* member.  The empty sequence is the empty string.                        *)
(***************************************************************************)
EXTENDS Integers, Sequences, FiniteSets, TLC

(***************************************************************************)
(* Bounds of the model.                                                    *)
(***************************************************************************)
\* the largest configured max_iterations that is explored
MaxN == 3

\* the longest reply, in tokens, of which every text is parsed
MaxReplyLen == 3

\* the largest max_iterations explored with concurrent calls of run
MaxConcIterations == 2

\* the largest operand, in absolute value, of the expressions given to the
\* calculator
MaxOperand == 2

(***************************************************************************)
(* Tokens.                                                                 *)
(***************************************************************************)
SP == " "
NL == "\n"

\* the characters \s matches
Whitespace == {SP, NL}

\* 'FINAL ANSWER:' under re.IGNORECASE: the upper-case form and another casing
FinalMarkers == {"FINAL ANSWER:", "final answer:"}

\* 'TOOL:' under re.IGNORECASE
ToolMarkers == {"TOOL:", "tool:"}

\* 'ARGS:' is searched without re.IGNORECASE: only this casing matches
ArgsMarker == "ARGS:"

\* tokens made of word characters only (\w)
WordTokens == {"calculator", "get_weather", "get_earthquake_data",
               "search_arxiv", "get_currency_exchange", "bogus", "42"}

\* the arithmetic expressions a op b given to the calculator: integer
\* operands, and for the division a divisor of 0, 1 or 2
Operands == (-MaxOperand)..MaxOperand

Divisors == {0, 1, 2}

Terms ==
    [a : Operands, op : {"+", "-", "*"}, b : Operands]
        \cup [a : Operands, op : {"/"}, b : Divisors]

\* the text of an expression, as in "2+2"
ExprText(t) == ToString(t.a) \o t.op \o ToString(t.b)

Expressions == {ExprText(t) : t \in Terms}

\* the JSON member "expression": "e"
ExpressionMember(e) == "expression:" \o e

ExpressionMembers == {ExpressionMember(e) : e \in Expressions}

\* JSON members "key": value, each one token; the value holds no brace
MemberTokens == ExpressionMembers \cup {"location:Boise", "colour:red"}

\* a key whose value is the object that follows it: "filter": {...}
NestedKey == "filter:"

\* a member whose string value holds a closing brace, "note": "a}b", is the
\* three tokens StringOpen, "}", StringClose
StringOpen == "note:a"

StringClose == "b"

MemberKey(tok) ==
    CASE tok \in ExpressionMembers -> "expression"
      [] tok = "location:Boise" -> "location"
      [] tok = NestedKey -> "filter"
      [] tok = StringOpen -> "note"
      [] OTHER -> "colour"

MemberValue(tok) ==
    CASE tok \in ExpressionMembers ->
             CHOOSE e \in Expressions : ExpressionMember(e) = tok
      [] tok = "location:Boise" -> "Boise"
      [] OTHER -> "red"

\* the longest prefix of a token that \w+ can match ("" when there is none)
WordPrefix(tok) ==
    CASE tok \in WordTokens -> tok
      [] tok = "FINAL ANSWER:" -> "FINAL"
      [] tok = "final answer:" -> "final"
      [] tok = "TOOL:" -> "TOOL"
      [] tok = "tool:" -> "tool"
      [] tok = "ARGS:" -> "ARGS"
      [] tok = "args:" -> "args"
      [] OTHER -> ""

(***************************************************************************)
(* Python values: None and the truth test of `if x:`.                      *)
(***************************************************************************)
None == [some |-> FALSE, v |-> <<>>]

Some(x) == [some |-> TRUE, v |-> x]

\* `if x:` for x a str, a dict or None
Truthy(x) == x.some /\ x.v # <<>>

\* the empty dict
EmptyDict == <<>>

(***************************************************************************)
(* str.strip()                                                             *)
(***************************************************************************)
RECURSIVE LStrip(_)
LStrip(s) ==
    IF s # <<>> /\ Head(s) \in Whitespace THEN LStrip(Tail(s)) ELSE s

RECURSIVE RStrip(_)
RStrip(s) ==
    IF s # <<>> /\ s[Len(s)] \in Whitespace
    THEN RStrip(SubSeq(s, 1, Len(s) - 1))
    ELSE s

\* Strip that leaves the text as it is: no call of strip()
Unstripped(s) == s

Strip(s) == RStrip(LStrip(s))

\* the number of white-space tokens of s from position i on (greedy \s*)
RECURSIVE WsRun(_, _)
WsRun(s, i) ==
    IF i <= Len(s) /\ s[i] \in Whitespace THEN 1 + WsRun(s, i + 1) ELSE 0

(***************************************************************************)
(* re.search(r'FINAL ANSWER:\s*(.+?)(?:\n|$)', response,                   *)
(*           re.DOTALL | re.IGNORECASE)                                    *)
(***************************************************************************)
\* the positions where the marker matches
FinalMarkerAt(s) == {i \in 1..Len(s) : s[i] \in FinalMarkers}

\* (.+?) needs one character after the marker: a marker that ends the text
\* does not match
FinalMatchStarts(s) == {i \in FinalMarkerAt(s) : i < Len(s)}

\* FinalGroup with a greedy (.+): the capture runs to the end of the text
FinalGroupGreedy(s, i) ==
    LET w == WsRun(s, i + 1)
        c == IF i + w = Len(s) THEN Len(s) ELSE i + 1 + w
    IN  SubSeq(s, c, Len(s))

\* group(1) of the leftmost match starting at marker i: \s* is greedy and
\* gives back one character when the white space runs to the end of the
\* text; (.+?) then stops before the first line break or at the end
FinalGroup(s, i) ==
    LET w == WsRun(s, i + 1)
        c == IF i + w = Len(s) THEN Len(s) ELSE i + 1 + w
        stops == {e \in c..Len(s) : e = Len(s) \/ s[e + 1] = NL}
        e == CHOOSE x \in stops : \A y \in stops : x <= y
    IN  SubSeq(s, c, e)

(***************************************************************************)
(* re.search(r'TOOL:\s*(\w+)', response, re.IGNORECASE)                    *)
(***************************************************************************)
\* the position after the marker at i and the white space that follows it
AfterWs(s, i) == i + 1 + WsRun(s, i + 1)

ToolMatchStarts(s) ==
    {i \in 1..Len(s) : /\ s[i] \in ToolMarkers
                       /\ AfterWs(s, i) <= Len(s)
                       /\ WordPrefix(s[AfterWs(s, i)]) # ""}

\* \w+ from position j: the word tokens that follow each other and the
\* word prefix of the token after them
RECURSIVE WordRun(_, _)
WordRun(s, j) ==
    IF j > Len(s) \/ WordPrefix(s[j]) = "" THEN <<>>
    ELSE IF s[j] \in WordTokens THEN <<s[j]>> \o WordRun(s, j + 1)
    ELSE <<WordPrefix(s[j])>>

ToolGroup(s, i) == WordRun(s, AfterWs(s, i))

(***************************************************************************)
(* re.search(r'ARGS:\s*(\{.+?\})', response, re.DOTALL)                    *)
(***************************************************************************)
\* the closing braces (.+?)\} can end at, for an opening brace at b
ArgsStops(s, b) == {e \in (b + 2)..Len(s) : s[e] = "}"}

ArgsMatchStarts(s) ==
    {i \in 1..Len(s) : /\ s[i] = ArgsMarker
                       /\ AfterWs(s, i) <= Len(s)
                       /\ s[AfterWs(s, i)] = "{"
                       /\ ArgsStops(s, AfterWs(s, i)) # {}}

ArgsGroup(s, i) ==
    LET b == AfterWs(s, i)
        e == CHOOSE x \in ArgsStops(s, b) : \A y \in ArgsStops(s, b) : x <= y
    IN  SubSeq(s, b, e)

\* the rightmost element: the last match of a pattern instead of the first
Rightmost(S) == CHOOSE x \in S : \A y \in S : x >= y

\* the leftmost element of a non-empty set of positions
Leftmost(S) == CHOOSE x \in S : \A y \in S : x <= y

(***************************************************************************)
(* json.loads on a captured '{...}'                                        *)
(***************************************************************************)
\* the text without its white space (JSON allows it between tokens)
RECURSIVE DropWs(_)
DropWs(s) ==
    IF s = <<>> THEN <<>>
    ELSE IF Head(s) \in Whitespace THEN DropWs(Tail(s))
    ELSE <<Head(s)>> \o DropWs(Tail(s))

\* the position after the member that starts at i, and after the members
\* between commas that start at i; 0 when there is none.  A member is one
\* token, or a string with a brace, or a key and a nested object
RECURSIVE MemberEnd(_, _), MembersEnd(_, _)
MemberEnd(s, i) ==
    IF i > Len(s) THEN 0
    ELSE IF s[i] \in MemberTokens THEN i + 1
    ELSE IF s[i] = StringOpen
    THEN IF i + 2 <= Len(s) /\ s[i + 1] = "}" /\ s[i + 2] = StringClose
         THEN i + 3 ELSE 0
    ELSE IF s[i] = NestedKey /\ i + 2 <= Len(s) /\ s[i + 1] = "{"
    THEN IF s[i + 2] = "}" THEN i + 3
         ELSE LET e == MembersEnd(s, i + 2)
              IN  IF e # 0 /\ e <= Len(s) /\ s[e] = "}" THEN e + 1 ELSE 0
    ELSE 0

MembersEnd(s, i) ==
    LET m == MemberEnd(s, i)
    IN  IF m = 0 THEN 0
        ELSE IF m <= Len(s) /\ s[m] = "," THEN MembersEnd(s, m + 1)
        ELSE m

\* member (, member)*
IsMembers(s) == s # <<>> /\ MembersEnd(s, 1) = Len(s) + 1

\* json.loads succeeds: an object with no member, or members between commas
JsonValid(t) ==
    LET d == DropWs(t)
    IN  /\ Len(d) >= 2
        /\ d[1] = "{"
        /\ d[Len(d)] = "}"
        /\ \/ Len(d) = 2
           \/ IsMembers(SubSeq(d, 2, Len(d) - 1))

\* the dict of the members that start at i: for a repeated key the last
\* member wins
RECURSIVE MembersFrom(_, _)
MembersFrom(s, i) ==
    LET m == MemberEnd(s, i)
        value == IF s[i] \in MemberTokens THEN MemberValue(s[i])
                 ELSE IF s[i] = StringOpen THEN "a}b"
                 ELSE IF s[i + 2] = "}" THEN EmptyDict
                 ELSE MembersFrom(s, i + 2)
        rest == IF m <= Len(s) /\ s[m] = "," THEN MembersFrom(s, m + 1)
                ELSE EmptyDict
    IN  [k \in (DOMAIN rest) \cup {MemberKey(s[i])} |->
            IF k \in DOMAIN rest THEN rest[k] ELSE value]

\* the dict of a valid object
MembersDict(s) == IF s = <<>> THEN EmptyDict ELSE MembersFrom(s, 1)

JsonLoads(t) ==
    LET d == DropWs(t) IN MembersDict(SubSeq(d, 2, Len(d) - 1))

(***************************************************************************)
(* ReActAgent._parse_response: (tool_name, tool_args, final_answer)        *)
(***************************************************************************)
\* the ARGS block of a reply parses as a JSON object
ArgsParse(response) ==
    /\ ArgsMatchStarts(response) # {}
    /\ JsonValid(ArgsGroup(response, Leftmost(ArgsMatchStarts(response))))

\* ParseArgs that gives no mapping for a block that is absent or malformed
ParseArgsStrict(response) ==
    IF ArgsParse(response)
    THEN Some(JsonLoads(ArgsGroup(response,
                                  Leftmost(ArgsMatchStarts(response)))))
    ELSE None

\* tool_args = {}; if args_match: try: tool_args = json.loads(...)
\* except json.JSONDecodeError: pass
ParseArgs(response) ==
    IF ArgsParse(response)
    THEN Some(JsonLoads(ArgsGroup(response,
                                  Leftmost(ArgsMatchStarts(response)))))
    ELSE Some(EmptyDict)

\* _parse_response that looks for the final answer and for the tool call
\* independently of each other
_parse_response_all(response) ==
    [tool_name |->
         IF ToolMatchStarts(response) # {}
         THEN Some(ToolGroup(response, Leftmost(ToolMatchStarts(response))))
         ELSE None,
     tool_args |->
         IF ToolMatchStarts(response) # {} THEN ParseArgs(response) ELSE None,
     final_answer |->
         IF FinalMatchStarts(response) # {}
         THEN Some(Strip(FinalGroup(response,
                                    Leftmost(FinalMatchStarts(response)))))
         ELSE None]

_parse_response(response) ==
    IF FinalMatchStarts(response) # {}
    THEN [tool_name |-> None, tool_args |-> None,
          final_answer |->
              Some(Strip(FinalGroup(response,
                                    Leftmost(FinalMatchStarts(response)))))]
    ELSE IF ToolMatchStarts(response) # {}
    THEN [tool_name |->
              Some(ToolGroup(response, Leftmost(ToolMatchStarts(response)))),
          tool_args |-> ParseArgs(response),
          final_answer |-> None]
    ELSE [tool_name |-> None, tool_args |-> None, final_answer |-> None]

(***************************************************************************)
(* The tool registry TOOLS and the signatures of its callables.            *)
(***************************************************************************)
\* TOOLS.keys(), in insertion order
ToolOrder == <<"calculator", "get_weather", "get_earthquake_data",
               "search_arxiv", "get_currency_exchange">>

ToolNames == {ToolOrder[i] : i \in 1..Len(ToolOrder)}

\* the parameters without a default
Required(tool) ==
    CASE tool = "calculator" -> {"expression"}
      [] tool = "get_weather" -> {"location"}
      [] tool = "get_earthquake_data" -> {}
      [] tool = "search_arxiv" -> {"query"}
      [] OTHER -> {"from_currency", "to_currency"}

\* the parameters with a default
Optional(tool) ==
    CASE tool = "get_earthquake_data" -> {"region", "min_magnitude"}
      [] tool = "search_arxiv" -> {"max_results"}
      [] tool = "get_currency_exchange" -> {"amount"}
      [] OTHER -> {}

\* tool_func(**args) binds: no unexpected keyword, no missing parameter
Binds(tool, args) ==
    /\ DOMAIN args \subseteq Required(tool) \cup Optional(tool)
    /\ Required(tool) \subseteq DOMAIN args

\* ', '.join(TOOLS.keys())
RECURSIVE JoinNames(_)
JoinNames(names) ==
    IF names = <<>> THEN <<>>
    ELSE IF Len(names) = 1 THEN names
    ELSE <<Head(names), ", ">> \o JoinNames(Tail(names))

\* TOOLS = {"calculator": calculator, ...}: each name bound to the function
\* of that name
Registry == [name \in ToolNames |-> name]

\* RegistryAfter for a registry that drops a tool once it was called
RegistryAfterPop(registry, tool_name) ==
    IF Len(tool_name) = 1 /\ tool_name[1] \in DOMAIN registry
    THEN [name \in (DOMAIN registry) \ {tool_name[1]} |-> registry[name]]
    ELSE registry

\* TOOLS after _execute_tool(tool_name, args): the registry is read
\* (`in`, keys(), TOOLS[tool_name]) and the callable gets the arguments only,
\* so it is as before
RegistryAfter(registry, tool_name) == registry

\* `tool_name in TOOLS`: a tool_name is the word tokens \w+ matched; the keys
\* of the registry are single identifiers, so a name of several tokens is
\* none of them
IsRegistered(tool_name) == Len(tool_name) = 1 /\ tool_name[1] \in ToolNames

(***************************************************************************)
(* The callables of the registry.  The body of each is one try block with  *)
(* `except Exception as e: return "... error: ..."`: whatever its work     *)
(* does (eval, the HTTP requests), the body returns text.  The only        *)
(* exception that leaves a call is the TypeError of a rejected argument    *)
(* set.                                                                    *)
(***************************************************************************)
\* what the work of a body does: the requests succeed, or something raises
Behaviours == {"succeeds", "fails"}

\* f"{x}" for the float x = n / 2, n >= 0
HalfText(n) == ToString(n \div 2) \o (IF n % 2 = 0 THEN ".0" ELSE ".5")

\* f"{a / b}" for a divisor b of 1 or 2: true division gives a float
QuotientText(a, b) ==
    IF a < 0 THEN "-" \o HalfText((-a) * (2 \div b))
    ELSE HalfText(a * (2 \div b))

\* EvalExpression with a division that truncates to an integer
EvalExpressionInteger(expression) ==
    IF expression \notin Expressions
    THEN [raised |-> TRUE, value |-> "invalid syntax"]
    ELSE LET t == CHOOSE x \in Terms : ExprText(x) = expression
         IN  CASE t.op = "+" -> [raised |-> FALSE, value |-> ToString(t.a + t.b)]
               [] t.op = "-" -> [raised |-> FALSE, value |-> ToString(t.a - t.b)]
               [] t.op = "*" -> [raised |-> FALSE, value |-> ToString(t.a * t.b)]
               [] OTHER ->
                    IF t.b = 0
                    THEN [raised |-> TRUE, value |-> "division by zero"]
                    ELSE [raised |-> FALSE,
                          value |-> ToString(t.a \div t.b)]

\* f"{eval(expression)}": [raised, value], the text of the value of an
\* expression of Expressions, or the message of the exception eval raises
EvalExpression(expression) ==
    IF expression \notin Expressions
    THEN [raised |-> TRUE, value |-> "invalid syntax"]
    ELSE LET t == CHOOSE x \in Terms : ExprText(x) = expression
         IN  CASE t.op = "+" -> [raised |-> FALSE, value |-> ToString(t.a + t.b)]
               [] t.op = "-" -> [raised |-> FALSE, value |-> ToString(t.a - t.b)]
               [] t.op = "*" -> [raised |-> FALSE, value |-> ToString(t.a * t.b)]
               [] OTHER ->
                    IF t.b = 0
                    THEN [raised |-> TRUE, value |-> "division by zero"]
                    ELSE [raised |-> FALSE,
                          value |-> QuotientText(t.a, t.b)]

\* calculator(expression): no request, the result depends on the text only
calculator(expression) ==
    IF EvalExpression(expression).raised
    THEN <<"Calculator error: ", EvalExpression(expression).value>>
    ELSE <<"Calculation result: ", expression, " = ",
           EvalExpression(expression).value>>

\* the text the body of a callable returns
ToolText(name, args, behaviour) ==
    IF name = "calculator" THEN calculator(args["expression"])
    ELSE IF behaviour = "fails"
    THEN <<name, " API error: ", "connection failed">>
    ELSE <<name, " result">>

\* tool_func(**args): [exc, value]; exc is "" when the call returns text,
\* else the class of the exception that leaves the call
CallTool(name, args, behaviour) ==
    IF ~Binds(name, args)
    THEN [exc |-> "TypeError",
          value |-> <<name, "() got an unexpected or missing argument">>]
    ELSE [exc |-> "", value |-> ToolText(name, args, behaviour)]

(***************************************************************************)
(* ReActAgent._execute_tool: [raised, invoked, value]                      *)
(***************************************************************************)
\* UnknownToolText that does not list the registry
UnknownToolTextNoList(tool_name) ==
    <<"ERROR: Unknown tool '">> \o tool_name \o <<"'.">>

UnknownToolText(tool_name) ==
    <<"ERROR: Unknown tool '">> \o tool_name \o <<"'. Available tools: ">>
        \o JoinNames(ToolOrder)

InvalidArgumentsText(tool_name, e) ==
    <<"ERROR: Invalid arguments for tool '">> \o tool_name \o <<"': ">> \o e

ExecutionFailedText(e) == <<"ERROR: Tool execution failed: ">> \o e

\* HandleCall with no try/except: every exception leaves _execute_tool
HandleCallUncaught(tool_name, call) ==
    [raised |-> call.exc # "", value |-> call.value]

\* HandleCall with `except Exception` only: every failure gets the generic text
HandleCallGeneric(tool_name, call) ==
    IF call.exc = "" THEN [raised |-> FALSE, value |-> call.value]
    ELSE [raised |-> FALSE, value |-> ExecutionFailedText(call.value)]

\* the try/except around tool_func(**args): return the observation, or
\* `except TypeError`, or `except Exception`
HandleCall(tool_name, call) ==
    IF call.exc = "" THEN [raised |-> FALSE, value |-> call.value]
    ELSE IF call.exc = "TypeError"
    THEN [raised |-> FALSE,
          value |-> InvalidArgumentsText(tool_name, call.value)]
    ELSE [raised |-> FALSE, value |-> ExecutionFailedText(call.value)]

_execute_tool(tool_name, args, behaviour) ==
    IF ~IsRegistered(tool_name)
    THEN [raised |-> FALSE, invoked |-> FALSE,
          value |-> UnknownToolText(tool_name)]
    ELSE LET r == HandleCall(tool_name,
                             CallTool(tool_name[1], args, behaviour))
         IN  [raised |-> r.raised, invoked |-> TRUE, value |-> r.value]

(***************************************************************************)
(* The agent that web_app_standalone.py carries inline: its                *)
(* _parse_response and _execute_tool, with the patterns, the handlers and  *)
(* the registry of that file.                                              *)
(***************************************************************************)
_parse_response_standalone(response) ==
    IF FinalMatchStarts(response) # {}
    THEN [tool_name |-> None, tool_args |-> None,
          final_answer |->
              Some(Strip(FinalGroup(response,
                                    Leftmost(FinalMatchStarts(response)))))]
    ELSE IF ToolMatchStarts(response) # {}
    THEN [tool_name |->
              Some(ToolGroup(response, Leftmost(ToolMatchStarts(response)))),
          tool_args |-> ParseArgs(response),
          final_answer |-> None]
    ELSE [tool_name |-> None, tool_args |-> None, final_answer |-> None]

_execute_tool_standalone(tool_name, args, behaviour) ==
    IF ~IsRegistered(tool_name)
    THEN [raised |-> FALSE, invoked |-> FALSE,
          value |-> UnknownToolText(tool_name)]
    ELSE LET r == HandleCall(tool_name,
                             CallTool(tool_name[1], args, behaviour))
         IN  [raised |-> r.raised, invoked |-> TRUE, value |-> r.value]

(***************************************************************************)
(* OpenRouterClient.chat, by what the HTTP request does.                   *)
(***************************************************************************)
\* requests.post raises, or raise_for_status does: a RequestException
RequestFailures == {"connection error", "timeout", "HTTP error status"}

\* the response lacks choices[0].message.content: KeyError or IndexError
FormatFailures == {"KeyError: 'choices'", "IndexError"}

\* the response is JSON of another shape (choices is null, the body is a
\* list): the subscript raises TypeError, which no except clause of chat names
ShapeFailures == {"TypeError: 'NoneType' object is not subscriptable"}

\* the HTTP requests one call of chat makes: requests.post is called once,
\* outside any loop, and no except clause calls it again
HttpRequests(http) == 1

\* [raised, value]: the content of the first choice, or the Exception raised
chat(http) ==
    IF http.kind \in RequestFailures
    THEN [raised |-> TRUE, value |-> <<"OpenRouter API error: ", http.kind>>]
    ELSE IF http.kind \in FormatFailures
    THEN [raised |-> TRUE,
          value |-> <<"Unexpected API response format: ", http.kind>>]
    ELSE IF http.kind \in ShapeFailures
    THEN [raised |-> TRUE, value |-> <<http.kind>>]
    ELSE [raised |-> FALSE, value |-> http.content]

(***************************************************************************)
(* The texts ReActAgent.run builds.                                        *)
(***************************************************************************)
system_prompt == <<"You are a helpful assistant that uses a ReAct approach",
                   "Available Tools">>

NudgeText ==
    <<"Please either use a tool (TOOL: ... ARGS: ...) or provide a FINAL ANSWER.">>

\* ObservationText without its prefix: the bare tool result
ObservationBare(observation) == observation

ObservationText(observation) == <<"OBSERVATION: ">> \o observation

\* CommErrorText without its prefix: the bare failure description
CommErrorTextBare(e) == e

CommErrorText(e) == <<"Error communicating with LLM: ">> \o e

BudgetText(n) ==
    <<"I apologize, but I couldn't complete the task within ", ToString(n),
      " steps. Please try rephrasing your question or breaking it into smaller parts.">>

\* the budget-exhausted message of the agent of web_app_standalone.py
BudgetText_standalone(n) ==
    <<"I apologize, but I couldn't complete the task within ", ToString(n),
      " steps. Please try rephrasing your question.">>

Message(role, content) == [role |-> role, content |-> content]

\* InitialMessages without the system message
InitialMessagesUserOnly(q) == <<Message("user", q)>>

\* messages = [{system, self.system_prompt}, {user, user_query}]
InitialMessages(q) == <<Message("system", system_prompt), Message("user", q)>>

\* AppendObservation with the two appends in the other order
AppendObservationSwapped(transcript, reply, observation) ==
    transcript \o <<Message("user", ObservationText(observation)),
                    Message("assistant", reply)>>

\* AppendObservation that keeps the two initial messages and the last exchange
\* only
AppendObservationWindow(transcript, reply, observation) ==
    SubSeq(transcript, 1, 2) \o
        <<Message("assistant", reply),
          Message("user", ObservationText(observation))>>

\* messages.append({assistant, response});
\* messages.append({user, f"OBSERVATION: {observation}"})
AppendObservation(transcript, reply, observation) ==
    transcript \o <<Message("assistant", reply),
                    Message("user", ObservationText(observation))>>

\* AppendNudge that feeds the reply back as the user message
AppendNudgeEcho(transcript, reply) ==
    transcript \o <<Message("assistant", reply), Message("user", reply)>>

\* AppendNudge without the append of the reply
AppendNudgeOnly(transcript, reply) ==
    transcript \o <<Message("user", NudgeText)>>

\* messages.append({assistant, response});
\* messages.append({user, "Please either use a tool ..."})
AppendNudge(transcript, reply) ==
    transcript \o <<Message("assistant", reply), Message("user", NudgeText)>>

(***************************************************************************)
(* The inputs of a run: the queries, what the HTTP request of a completion *)
(* call does, and the replies of the model.                                *)
(***************************************************************************)
Queries == {<<"What is 2+2?">>, <<"Weather in Boise?">>}

Replies ==
    { <<"FINAL ANSWER:", SP, "42">>,
      <<"final answer:", SP, "42", SP, NL, "bogus">>,
      <<"FINAL ANSWER:", SP>>,
      <<"FINAL ANSWER:", SP, "42", NL, "TOOL:", SP, "calculator">>,
      <<"TOOL:", SP, "calculator", NL, "FINAL ANSWER:", SP, "42">>,
      <<"TOOL:", SP, "calculator", NL, "FINAL ANSWER:">>,
      <<"TOOL:", SP, "calculator", NL,
        "ARGS:", SP, "{", "expression:2+2", "}">>,
      <<"TOOL:", SP, "calculator", NL, "ARGS:", SP, "{", "colour:red", "}">>,
      <<"TOOL:", SP, "get_earthquake_data">>,
      <<"TOOL:", SP, "bogus">>,
      <<"?">>,
      <<>> }

\* the HTTP request fails, or the response lacks the reply field, or its
\* content is a text or null
HttpOutcomes ==
    {[kind |-> k, content |-> None] :
        k \in RequestFailures \cup FormatFailures \cup ShapeFailures}
        \cup {[kind |-> "ok", content |-> Some(r)] : r \in Replies}
        \cup {[kind |-> "ok", content |-> None]}

(***************************************************************************)
(* The replies the parser is checked on: every text of at most MaxReplyLen *)
(* tokens of Alphabet, and the directives of the protocol in the casings   *)
(* and layouts its patterns admit.                                         *)
(***************************************************************************)
Alphabet == {"FINAL ANSWER:", "final answer:", "TOOL:", "tool:", "ARGS:",
             "args:", SP, NL, "calculator", "42", "{", "}", "expression:2+2",
             "?"}

\* the texts of at most n tokens
RECURSIVE Texts(_)
Texts(n) ==
    IF n = 0 THEN {<<>>}
    ELSE LET shorter == Texts(n - 1)
         IN  shorter \cup {Append(t, a) :
                               t \in {x \in shorter : Len(x) = n - 1},
                               a \in Alphabet}

\* the white space between a marker and what follows it
Gaps == {<<>>, <<SP>>, <<NL>>}

ToolLines ==
    {<<m>> \o g \o <<n>> :
        m \in ToolMarkers, g \in Gaps,
        n \in {"calculator", "get_earthquake_data", "bogus"}}

ArgsBodies ==
    {<<"{", m, "}">> : m \in {"expression:2+2", "location:Boise", "colour:red"}}
        \cup { <<"{", SP, "}">>, <<"{", "expression:2+2">>,
               <<"{", "?", "}">>, <<"{", "expression:2+2", ",", "}">>,
               <<"{", "colour:red", ",", SP, "expression:2+2", "}">>,
               <<"{", "expression:2+2", "}", "}">> }

ArgsLines ==
    {<<m>> \o g \o b : m \in {"ARGS:", "args:"}, g \in Gaps, b \in ArgsBodies}

ToolReplies ==
    {t \o a : t \in ToolLines, a \in {<<>>}} \cup
    {t \o sep \o a : t \in ToolLines, sep \in {<<SP>>, <<NL>>}, a \in ArgsLines}

Answers == { <<"42">>, <<"42", SP>>, <<"42", SP, "?">>, <<"42", NL, "bogus">>,
             <<"42", NL>>, <<"?", NL, NL, "42">> }

FinalReplies ==
    {pre \o <<m>> \o g \o x :
        pre \in {<<>>, <<"?", NL>>}, m \in FinalMarkers, g \in Gaps,
        x \in Answers}

\* TOOL: calculator / ARGS: {"expression": "e"}
CalcReply(e) ==
    <<"TOOL:", SP, "calculator", NL, "ARGS:", SP, "{", ExpressionMember(e), "}">>

CalcReplies == {CalcReply(e) : e \in Expressions}

\* replies that request two or three tools: each request a TOOL line, with
\* or without an ARGS line after it
RequestArgs ==
    {<<>>} \cup
    {<<NL, "ARGS:", SP>> \o body :
        body \in { <<"{", "expression:2+2", "}">>, <<"{", "location:Boise", "}">>,
                   <<"{", "?", "}">>, <<"{", "expression:2+2">> }}

Requests ==
    {<<m, SP, n>> \o a :
        m \in ToolMarkers, n \in {"calculator", "get_earthquake_data"},
        a \in RequestArgs}

MultiToolReplies ==
    {first \o <<NL>> \o second \o more :
        first \in Requests, second \in Requests,
        more \in {<<>>, <<NL, "TOOL:", SP, "bogus">>}}

\* JSON objects with a nested object or with a brace in a string value
DeepBodies ==
    { <<"{", NestedKey, SP, "{", "colour:red", "}", "}">>,
      <<"{", NestedKey, SP, "{", "}", "}">>,
      <<"{", "location:Boise", ",", SP, NestedKey, SP, "{", "colour:red", "}",
        "}">>,
      <<"{", NestedKey, "{", NestedKey, "{", "colour:red", "}", "}", "}">>,
      <<"{", StringOpen, "}", StringClose, "}">>,
      <<"{", StringOpen, "}", StringClose, ",", SP, "location:Boise", "}">>,
      <<"{", "location:Boise", ",", SP, StringOpen, "}", StringClose, "}">> }

\* TOOL: name / ARGS: object, for these objects and for flat ones
DeepReplies ==
    {<<m, SP, n, NL, "ARGS:">> \o g \o body \o after :
        m \in ToolMarkers, n \in {"get_weather", "get_earthquake_data"},
        g \in Gaps,
        body \in DeepBodies \cup { <<"{", "location:Boise", "}">>,
                                   <<"{", "location:Boise", ",", "colour:red", "}">> },
        after \in {<<>>, <<NL, "?">>}}

ParseReplies ==
    Texts(MaxReplyLen) \cup ToolReplies \cup FinalReplies \cup CalcReplies
        \cup MultiToolReplies \cup DeepReplies

ParseHttpOutcomes ==
    HttpOutcomes \cup {[kind |-> "ok", content |-> Some(r)] : r \in ParseReplies}

(***************************************************************************)
(* get_earthquake_data.  A string is the sequence of its characters; the   *)
(* feed is the "features" list of the decoded GeoJSON document; a          *)
(* property of a feature is absent, null, or a value; magnitudes are       *)
(* integers.                                                               *)
(***************************************************************************)
\* the number of events of the feed that get_earthquake_data lists
ListLimit == 5

\* sequences of at most MaxFeedLen features stand for feeds with any
\* features; longer feeds are made of listable events only
MaxFeedLen == 2

Absent(nothing) == [present |-> FALSE, some |-> FALSE, v |-> nothing]

JsonNull(nothing) == [present |-> TRUE, some |-> FALSE, v |-> nothing]

JsonValue(x) == [present |-> TRUE, some |-> TRUE, v |-> x]

\* dict.get(key, default): the default only when the key is absent, so a
\* null stays None
DictGet(property, default) ==
    IF property.present THEN [some |-> property.some, v |-> property.v]
    ELSE [some |-> TRUE, v |-> default]

\* str.lower() of one character
LowerChar(c) ==
    CASE c = "A" -> "a"
      [] c = "B" -> "b"
      [] c = "L" -> "l"
      [] c = "U" -> "u"
      [] OTHER -> c

\* str.lower()
Lower(s) == [i \in 1..Len(s) |-> LowerChar(s[i])]

\* sub in s
Contains(sub, s) ==
    \E i \in 0..(Len(s) - Len(sub)) :
        \A j \in 1..Len(sub) : s[i + j] = sub[j]

RegionAll == <<"a", "l", "l">>

PlaceUnknown == <<"U", "n", "k", "n", "o", "w", "n">>

\* f"{place}"
PlaceText(place) == IF place.some THEN place.v ELSE <<"N", "o", "n", "e">>

\* earthquakes.sort(key=lambda x: x["magnitude"], reverse=True): the sort is
\* stable, so events of equal magnitude keep the order of the feed
RECURSIVE SortDescending(_)
SortDescending(earthquakes) ==
    IF earthquakes = <<>> THEN <<>>
    ELSE LET rest == SortDescending(SubSeq(earthquakes, 1, Len(earthquakes) - 1))
             eq == earthquakes[Len(earthquakes)]
             k == Cardinality({i \in 1..Len(rest) :
                                   rest[i].magnitude >= eq.magnitude})
         IN  SubSeq(rest, 1, k) \o <<eq>> \o SubSeq(rest, k + 1, Len(rest))

\* earthquakes[:5]
Listed(earthquakes) ==
    SubSeq(earthquakes, 1,
           IF Len(earthquakes) < ListLimit THEN Len(earthquakes) ELSE ListLimit)

\* the loop over the features from feature i on, with the events collected
\* so far: the list of events, or the exception that ends the loop
RECURSIVE Collect(_, _, _, _, _)
Collect(features, i, earthquakes, min_magnitude, region) ==
    IF i > Len(features) THEN [raised |-> "", earthquakes |-> earthquakes]
    ELSE LET mag == DictGet(features[i].mag, 0)
             place == DictGet(features[i].place, PlaceUnknown)
         IN  IF ~mag.some
             THEN [raised |-> "TypeError", earthquakes |-> earthquakes]
             ELSE IF mag.v >= min_magnitude
             THEN IF Lower(region) # RegionAll /\ ~place.some
                  THEN [raised |-> "AttributeError",
                        earthquakes |-> earthquakes]
                  ELSE IF Lower(region) # RegionAll
                              /\ ~Contains(Lower(region), Lower(place.v))
                  THEN Collect(features, i + 1, earthquakes, min_magnitude,
                               region)
                  ELSE Collect(features, i + 1,
                               Append(earthquakes,
                                      [magnitude |-> mag.v, location |-> place]),
                               min_magnitude, region)
             ELSE Collect(features, i + 1, earthquakes, min_magnitude, region)

\* str(e) of the exception
ExceptionText(raised) ==
    CASE raised = "TypeError" ->
             <<"'>=' not supported between instances of 'NoneType' and 'int'">>
      [] raised = "AttributeError" ->
             <<"'NoneType' object has no attribute 'lower'">>
      [] OTHER -> <<raised>>

QuakeErrorText(raised) == <<"Earthquake API error: ">> \o ExceptionText(raised)

NoneFoundText(min_magnitude, region) ==
    <<"No earthquakes with magnitude >= ", ToString(min_magnitude),
      " found in the last 24 hours for region '">> \o region \o <<"'">>

RECURSIVE ListingLines(_)
ListingLines(listed) ==
    IF listed = <<>> THEN <<>>
    ELSE <<"\n", "  - Magnitude ", ToString(listed[1].magnitude), ": ">>
             \o PlaceText(listed[1].location) \o ListingLines(Tail(listed))

FoundText(count, min_magnitude, listed) ==
    <<"Found ", ToString(count), " earthquake(s) with magnitude >= ",
      ToString(min_magnitude), " in the last 24 hours:">>
        \o ListingLines(listed)

\* get_earthquake_data(min_magnitude, region), given what requests.get and
\* response.json() produce: the sorted list of events and the text returned
get_earthquake_data(min_magnitude, region, fetched) ==
    IF fetched.raised # ""
    THEN [earthquakes |-> <<>>, value |-> QuakeErrorText(fetched.raised)]
    ELSE LET c == Collect(fetched.features, 1, <<>>, min_magnitude, region)
         IN  IF c.raised # ""
             THEN [earthquakes |-> <<>>, value |-> QuakeErrorText(c.raised)]
             ELSE IF c.earthquakes = <<>>
             THEN [earthquakes |-> <<>>,
                   value |-> NoneFoundText(min_magnitude, region)]
             ELSE LET sorted == SortDescending(c.earthquakes)
                  IN  [earthquakes |-> sorted,
                       value |-> FoundText(Len(sorted), min_magnitude,
                                           Listed(sorted))]

\* the inputs: magnitudes and places of the features, the feeds, the
\* arguments
QuakeMags == {Absent(0), JsonNull(0), JsonValue(1), JsonValue(2), JsonValue(3)}

QuakePlaces ==
    {Absent(<<>>), JsonNull(<<>>), JsonValue(<<"A", "l", "a">>),
     JsonValue(<<"b", "a", "L">>), JsonValue(<<"l", "a">>)}

Features == [mag : QuakeMags, place : QuakePlaces]

\* events that any call with region "al" or 'all' lists, and one with a null
\* magnitude
ListableFeatures ==
    {[mag |-> JsonValue(2), place |-> JsonValue(<<"A", "l", "a">>)],
     [mag |-> JsonValue(3), place |-> JsonValue(<<"b", "a", "L">>)],
     [mag |-> JsonNull(0), place |-> JsonValue(<<"A", "l", "a">>)]}

Feeds ==
    UNION {[1..n -> Features] : n \in 0..MaxFeedLen}
        \cup [1..(ListLimit + 1) -> ListableFeatures]

Fetches ==
    {[raised |-> "timed out", features |-> <<>>]}
        \cup {[raised |-> "", features |-> f] : f \in Feeds}

Regions == {RegionAll, <<"A", "L", "L">>, <<"a", "l">>, <<"L", "A">>}

MinMagnitudes == {0, 2}

(***************************************************************************)
(* The state of the process, of an agent and of its run.                   *)
(***************************************************************************)
VARIABLES
    environ,        \* os.environ.get("OPENROUTER_API_KEY")
    client,         \* the OpenRouterClient of the agent: built, self.api_key
    given,          \* history: the api_key argument of the construction
    max_iterations, \* self.max_iterations, set at construction
    pc,             \* where run is: idle, loop, chat, parse, tool, done, raised
    user_query,     \* the argument of run
    messages,       \* the transcript
    iteration,      \* the loop counter
    response,       \* what client.chat returned
    directive,      \* what _parse_response returned
    result,         \* what run returned: None until it returns
    calls,          \* history: the client.chat calls of this run
    dispatches,     \* history: the _execute_tool calls of this run
    invocations,    \* history: the registry callables invoked in this run
    sent,           \* history: the transcript passed to each client.chat call
    tool,           \* history: what the last _execute_tool did, and when
    fed,            \* history: the text the last iteration fed back
    ending,         \* history: how run ended: final, comm_error, budget, raised
    replies,        \* history: what each client.chat call of this run returned
    directives,     \* history: what each _parse_response call of this run returned
    posts,          \* history: the HTTP requests of this run
    frames,         \* the locals of the concurrent calls of run, by frame
    threads,        \* the concurrent calls: where each is, and the history
                    \* of its query and of what it was given, in order
    self,           \* the other fields of the agent: verbose, system_prompt
    cache,          \* what lru_cache holds for get_agent(): an agent, or None
    builds,         \* history: the agents _build_agent has returned
    serving,        \* the chat requests: where each is, and its agent
    TOOLS,          \* the tool registry of the module
    quake           \* the last call of get_earthquake_data: arguments,
                    \* feed, sorted events and returned text

\* the construction of the client and the agent
\* the cached agent of the web application and its requests
cacheVars == <<cache, builds, serving>>

buildVars == <<environ, client, given, self, cacheVars, quake>>

\* one call of run on the agent
runVars == <<max_iterations, pc, user_query, messages, iteration, response,
             directive, result, calls, dispatches, invocations, sent, tool,
             fed, ending, replies, directives, posts>>

\* several concurrent calls of run on the agent
concVars == <<frames, threads>>

vars == <<buildVars, runVars, concVars, TOOLS>>

NoDirective == [tool_name |-> None, tool_args |-> None, final_answer |-> None]

NoTool ==
    [name |-> <<>>, args |-> EmptyDict, raised |-> FALSE, invoked |-> FALSE,
     value |-> <<>>, iteration |-> 0]

\* ReActAgent.__init__: max_iterations is any integer (the web application
\* reads it from AGENT_MAX_ITERATIONS)
\* no call of run yet
NoRun ==
    /\ user_query = <<>>
    /\ messages = <<>>
    /\ iteration = 0
    /\ response = None
    /\ directive = NoDirective
    /\ result = None
    /\ calls = 0
    /\ dispatches = 0
    /\ invocations = 0
    /\ sent = <<>>
    /\ tool = NoTool
    /\ fed = <<>>
    /\ ending = ""
    /\ replies = <<>>
    /\ directives = <<>>
    /\ posts = 0

\* no client and no agent yet
NoClient == [built |-> FALSE, api_key |-> None]

NoAgent == [verbose |-> FALSE, system_prompt |-> <<>>]

\* get_earthquake_data was not called yet
NoQuake ==
    [at |-> "idle", min_magnitude |-> 0, region |-> <<>>,
     fetched |-> [raised |-> "", features |-> <<>>],
     earthquakes |-> <<>>, value |-> <<>>]

\* get_agent was not called yet
NoCache ==
    /\ cache = None
    /\ builds = 0
    /\ serving = <<>>

\* an agent built from the environment, as _build_agent and main do
RunInit ==
    /\ max_iterations \in (-1)..MaxN
    /\ pc = "idle"
    /\ NoRun
    /\ environ = Some(<<"sk-env">>)
    /\ client = [built |-> TRUE, api_key |-> Some(<<"sk-env">>)]
    /\ given = Some(<<"sk-env">>)
    /\ self = [verbose |-> FALSE, system_prompt |-> system_prompt]
    /\ TOOLS = Registry
    /\ NoCache
    /\ quake = NoQuake

\* one call of run at a time: no concurrent call
Init ==
    /\ RunInit
    /\ frames = <<>>
    /\ threads = <<>>

(***************************************************************************)
(* The construction of the client and of the agent.                        *)
(***************************************************************************)
\* os.environ.get("OPENROUTER_API_KEY"): not set, set to '', set to a key
EnvKeys == {None, Some(<<>>), Some(<<"sk-env">>)}

\* the api_key argument: None (the default), '', a key
ArgKeys == {None, Some(<<>>), Some(<<"sk-arg">>)}

\* x or y
PyOr(x, y) == IF Truthy(x) THEN x ELSE y

\* OpenRouterClient_init without the check of self.api_key
OpenRouterClient_init_unchecked(api_key, env) ==
    [raised |-> FALSE, api_key |-> PyOr(api_key, env)]

\* OpenRouterClient.__init__: self.api_key = api_key or os.environ.get(...);
\* if not self.api_key: raise ValueError: [raised, api_key]
OpenRouterClient_init(api_key, env) ==
    IF ~Truthy(PyOr(api_key, env))
    THEN [raised |-> TRUE, api_key |-> None]
    ELSE [raised |-> FALSE, api_key |-> PyOr(api_key, env)]

\* OpenRouterClient(api_key=api_key), then ReActAgent(client, ...) when the
\* client was built
Construct(api_key) ==
    /\ pc \in {"unbuilt", "failed"}
    /\ given' = api_key
    /\ IF OpenRouterClient_init(api_key, environ).raised
       THEN /\ pc' = "failed"
            /\ client' = NoClient
            /\ self' = NoAgent
       ELSE /\ pc' = "idle"
            /\ client' =
                   [built |-> TRUE,
                    api_key |-> OpenRouterClient_init(api_key, environ).api_key]
            /\ self' = [verbose |-> FALSE, system_prompt |-> system_prompt]
    /\ UNCHANGED <<environ, max_iterations, user_query, messages, iteration,
                   response, directive, result, calls, dispatches, invocations,
                   sent, tool, fed, ending, replies, directives, posts,
                   concVars, TOOLS, cacheVars, quake>>

\* _build_agent and main: api_key = os.environ.get("OPENROUTER_API_KEY");
\* if not api_key: raise RuntimeError (sys.exit(1) in main); else the
\* construction with that key
BuildFromEnvironment ==
    IF Truthy(environ) THEN Construct(environ)
    ELSE /\ pc \in {"unbuilt", "failed"}
         /\ pc' = "failed"
         /\ UNCHANGED <<buildVars, max_iterations, user_query, messages,
                        iteration, response, directive, result, calls,
                        dispatches, invocations, sent, tool, fed, ending,
                        replies, directives, posts, concVars, TOOLS>>

(***************************************************************************)
(* ReActAgent.run                                                          *)
(***************************************************************************)
\* run is called: messages = [system, user], iteration = 0
Start(q) ==
    /\ pc \in {"idle", "done", "raised"}
    /\ pc' = "loop"
    /\ user_query' = q
    /\ messages' = InitialMessages(q)
    /\ iteration' = 0
    /\ response' = None
    /\ directive' = NoDirective
    /\ result' = None
    /\ calls' = 0
    /\ dispatches' = 0
    /\ invocations' = 0
    /\ sent' = <<>>
    /\ tool' = NoTool
    /\ fed' = <<>>
    /\ ending' = ""
    /\ replies' = <<>>
    /\ directives' = <<>>
    /\ posts' = 0
    /\ UNCHANGED <<max_iterations, buildVars, concVars, TOOLS>>

\* LoopTest with the bound included: one iteration too many
LoopTestInclusive(i, n) == i <= n

\* LoopTest that stops one iteration early
LoopTestEarly(i, n) == i + 1 < n

\* while iteration < self.max_iterations
LoopTest(i, n) == i < n

\* NextIteration that counts an iteration twice
NextIterationTwice(i) == i + 2

\* iteration += 1
NextIteration(i) == i + 1

\* the loop test holds: iteration += 1
LoopEnter ==
    /\ pc = "loop"
    /\ LoopTest(iteration, max_iterations)
    /\ iteration' = NextIteration(iteration)
    /\ pc' = "chat"
    /\ UNCHANGED <<replies, directives, posts>>
    /\ UNCHANGED <<buildVars, concVars, TOOLS>>
    /\ UNCHANGED <<max_iterations, user_query, messages, response, directive,
                   result, calls, dispatches, invocations, sent, tool, fed,
                   ending>>

\* the loop test fails: return the budget-exhausted message
LoopExit ==
    /\ pc = "loop"
    /\ ~LoopTest(iteration, max_iterations)
    /\ result' = Some(BudgetText(max_iterations))
    /\ ending' = "budget"
    /\ pc' = "done"
    /\ UNCHANGED <<replies, directives, posts>>
    /\ UNCHANGED <<buildVars, concVars, TOOLS>>
    /\ UNCHANGED <<max_iterations, user_query, messages, iteration, response,
                   directive, calls, dispatches, invocations, sent, tool, fed>>

\* response = self.client.chat(messages) returns
ChatReturns(http) ==
    /\ pc = "chat"
    /\ ~chat(http).raised
    /\ calls' = calls + 1
    /\ sent' = Append(sent, messages)
    /\ response' = chat(http).value
    /\ pc' = "parse"
    /\ replies' = Append(replies, chat(http).value)
    /\ posts' = posts + HttpRequests(http)
    /\ UNCHANGED directives
    /\ UNCHANGED <<buildVars, concVars, TOOLS>>
    /\ UNCHANGED <<max_iterations, user_query, messages, iteration, directive,
                   result, dispatches, invocations, tool, fed, ending>>

\* what run does with an Exception of client.chat: [returns, value]
OnChatError(e) == [returns |-> TRUE, value |-> CommErrorText(e)]

\* self.client.chat(messages) raises: except Exception as e: return ...
ChatRaises(http) ==
    /\ pc = "chat"
    /\ chat(http).raised
    /\ calls' = calls + 1
    /\ sent' = Append(sent, messages)
    /\ IF OnChatError(chat(http).value).returns
       THEN /\ result' = Some(OnChatError(chat(http).value).value)
            /\ ending' = "comm_error"
            /\ pc' = "done"
       ELSE /\ result' = None
            /\ ending' = "raised"
            /\ pc' = "raised"
    /\ posts' = posts + HttpRequests(http)
    /\ UNCHANGED <<replies, directives>>
    /\ UNCHANGED <<buildVars, concVars, TOOLS>>
    /\ UNCHANGED <<max_iterations, user_query, messages, iteration, response,
                   directive, dispatches, invocations, tool, fed>>

\* re.search(pattern, response) accepts a str only: a content that is null
\* makes _parse_response raise TypeError, which run does not catch
ParseRaises ==
    /\ pc = "parse"
    /\ ~response.some
    /\ ending' = "raised"
    /\ pc' = "raised"
    /\ UNCHANGED <<replies, directives, posts>>
    /\ UNCHANGED <<buildVars, concVars, TOOLS>>
    /\ UNCHANGED <<max_iterations, user_query, messages, iteration, response,
                   directive, result, calls, dispatches, invocations, sent,
                   tool, fed>>

\* Branch on the variant the parser returned (`is not None`), whatever the
\* truth value of the text
BranchOnVariant(d) ==
    IF d.final_answer.some THEN "final"
    ELSE IF d.tool_name.some THEN "tool"
    ELSE "nudge"

\* Branch that takes every reply for a tool call
BranchAlwaysTool(d) == "tool"

\* the branch run takes on (tool_name, tool_args, final_answer):
\* `if final_answer:`, then `if tool_name:`, else the nudge
Branch(d) ==
    IF Truthy(d.final_answer) THEN "final"
    ELSE IF Truthy(d.tool_name) THEN "tool"
    ELSE "nudge"

\* if final_answer: return final_answer
ReturnFinalAnswer ==
    /\ pc = "parse"
    /\ response.some
    /\ Branch(_parse_response(response.v)) = "final"
    /\ directive' = _parse_response(response.v)
    /\ result' = Some(directive'.final_answer.v)
    /\ ending' = "final"
    /\ pc' = "done"
    /\ directives' = Append(directives, directive')
    /\ UNCHANGED <<replies, posts>>
    /\ UNCHANGED <<buildVars, concVars, TOOLS>>
    /\ UNCHANGED <<max_iterations, user_query, messages, iteration, response,
                   calls, dispatches, invocations, sent, tool, fed>>

\* if tool_name: go on to self._execute_tool(tool_name, tool_args)
RequestTool ==
    /\ pc = "parse"
    /\ response.some
    /\ Branch(_parse_response(response.v)) = "tool"
    /\ directive' = _parse_response(response.v)
    /\ pc' = "tool"
    /\ directives' = Append(directives, directive')
    /\ UNCHANGED <<replies, posts>>
    /\ UNCHANGED <<buildVars, concVars, TOOLS>>
    /\ UNCHANGED <<max_iterations, user_query, messages, iteration, response,
                   result, calls, dispatches, invocations, sent, tool, fed,
                   ending>>

\* neither: append the reply and the corrective nudge
Nudge ==
    /\ pc = "parse"
    /\ response.some
    /\ Branch(_parse_response(response.v)) = "nudge"
    /\ directive' = _parse_response(response.v)
    /\ messages' = AppendNudge(messages, response.v)
    /\ fed' = NudgeText
    /\ pc' = "loop"
    /\ directives' = Append(directives, directive')
    /\ UNCHANGED <<replies, posts>>
    /\ UNCHANGED <<buildVars, concVars, TOOLS>>
    /\ UNCHANGED <<max_iterations, user_query, iteration, response, result,
                   calls, dispatches, invocations, sent, tool, ending>>

\* observation = self._execute_tool(tool_name, tool_args), then the two
\* appends and `continue`
Dispatch(behaviour) ==
    /\ pc = "tool"
    /\ LET r == _execute_tool(directive.tool_name.v, directive.tool_args.v,
                              behaviour)
       IN  /\ tool' = [name |-> directive.tool_name.v,
                       args |-> directive.tool_args.v,
                       raised |-> r.raised, invoked |-> r.invoked,
                       value |-> r.value, iteration |-> iteration]
           /\ dispatches' = dispatches + 1
           /\ invocations' = invocations + (IF r.invoked THEN 1 ELSE 0)
           /\ IF r.raised
              THEN /\ ending' = "raised"
                   /\ pc' = "raised"
                   /\ UNCHANGED <<messages, fed>>
              ELSE /\ messages' =
                          AppendObservation(messages, response.v, r.value)
                   /\ fed' = ObservationText(r.value)
                   /\ pc' = "loop"
                   /\ UNCHANGED ending
    /\ UNCHANGED <<replies, directives, posts>>
    /\ TOOLS' = RegistryAfter(TOOLS, directive.tool_name.v)
    /\ UNCHANGED <<buildVars, concVars>>
    /\ UNCHANGED <<max_iterations, user_query, iteration, response, directive,
                   result, calls, sent>>

Next ==
    \/ \E q \in Queries : Start(q)
    \/ LoopEnter
    \/ LoopExit
    \/ \E http \in HttpOutcomes : ChatReturns(http)
    \/ \E http \in HttpOutcomes : ChatRaises(http)
    \/ ParseRaises
    \/ ReturnFinalAnswer
    \/ RequestTool
    \/ Nudge
    \/ \E behaviour \in Behaviours : Dispatch(behaviour)

Spec == Init /\ [][Next]_vars

\* the steps of run itself: all of Next but the call of run
RunProgress ==
    \/ LoopEnter
    \/ LoopExit
    \/ \E http \in HttpOutcomes : ChatReturns(http)
    \/ \E http \in HttpOutcomes : ChatRaises(http)
    \/ ParseRaises
    \/ ReturnFinalAnswer
    \/ RequestTool
    \/ Nudge
    \/ \E behaviour \in Behaviours : Dispatch(behaviour)

\* the thread of run goes on, and every call of client.chat and of a tool
\* returns or raises; whether run is called again is up to the caller
MaxLiveIterations == 2

LiveInit == Init /\ max_iterations <= MaxLiveIterations

LiveSpec == LiveInit /\ [][Next]_vars /\ WF_vars(RunProgress)

(***************************************************************************)
(* One iteration of run on every reply of ParseReplies: the reply is       *)
(* parsed and what it asks for is done.                                    *)
(***************************************************************************)
ParseInit == Init /\ max_iterations = 1

\* client.chat returns one of the replies of ParseReplies
ParseChatReturns ==
    /\ pc = "chat"
    /\ \E http \in ParseHttpOutcomes : ChatReturns(http)

ParseChatRaises ==
    /\ pc = "chat"
    /\ \E http \in ParseHttpOutcomes : ChatRaises(http)

ParseNext ==
    \/ Start(<<"What is 2+2?">>)
    \/ LoopEnter
    \/ LoopExit
    \/ ParseChatReturns
    \/ ParseChatRaises
    \/ ParseRaises
    \/ ReturnFinalAnswer
    \/ RequestTool
    \/ Nudge
    \/ \E behaviour \in Behaviours : Dispatch(behaviour)

ParseSpec == ParseInit /\ [][ParseNext]_vars

(***************************************************************************)
(* The process from its start: the construction, with and without a        *)
(* credential, and then calls of run.                                      *)
(***************************************************************************)
BuildInit ==
    /\ max_iterations \in 0..1
    /\ pc = "unbuilt"
    /\ NoRun
    /\ environ \in EnvKeys
    /\ client = NoClient
    /\ given = None
    /\ self = NoAgent
    /\ TOOLS = Registry
    /\ NoCache
    /\ quake = NoQuake
    /\ frames = <<>>
    /\ threads = <<>>

BuildNext ==
    \/ \E api_key \in ArgKeys : Construct(api_key)
    \/ BuildFromEnvironment
    \/ Next

BuildSpec == BuildInit /\ [][BuildNext]_vars

(***************************************************************************)
(* Concurrent calls of run on one agent (the web application answers each  *)
(* request on a worker thread with the cached agent).  The agent and its   *)
(* client are only read; messages, iteration, response, tool_name,         *)
(* tool_args and final_answer are locals of the call.                      *)
(***************************************************************************)
Runs == {1, 2}

\* the query of each request
QueryOf(r) == IF r = 1 THEN <<"What is 2+2?">> ELSE <<"Weather in Boise?">>

ConcReplies ==
    { <<"FINAL ANSWER:", SP, "42">>,
      <<"TOOL:", SP, "get_earthquake_data">>,
      <<"?">> }

ConcHttpOutcomes ==
    {[kind |-> "timeout", content |-> None], [kind |-> "ok", content |-> None]}
        \cup {[kind |-> "ok", content |-> Some(r)] : r \in ConcReplies}

\* what a step of run is given: the outcome of the HTTP request of a call of
\* client.chat, or what the work of the tool does, or nothing
NoHttp == [kind |-> "", content |-> None]

NoInput == [http |-> NoHttp, behaviour |-> ""]

\* messages and iteration as run initialises them, and the other locals
StartLocals(q) ==
    [messages |-> InitialMessages(q),
     iteration |-> 0,
     response |-> None,
     directive |-> NoDirective,
     result |-> None]

\* a frame shared by all calls: the locals kept as fields of the agent
FrameShared(r) == 1

\* the frame that holds the locals of call r: each call has its own
FrameOf(r) == r

\* one step of run from position at with locals l, given x, for an agent
\* with max_iterations = n: [at, l]
RunStep(at, l, x, n) ==
    CASE at = "loop" ->
             IF LoopTest(l.iteration, n)
             THEN [at |-> "chat",
                   l |-> [l EXCEPT !.iteration = NextIteration(@)]]
             ELSE [at |-> "done",
                   l |-> [l EXCEPT !.result = Some(BudgetText(n))]]
      [] at = "chat" ->
             IF ~chat(x.http).raised
             THEN [at |-> "parse",
                   l |-> [l EXCEPT !.response = chat(x.http).value]]
             ELSE IF OnChatError(chat(x.http).value).returns
             THEN [at |-> "done",
                   l |-> [l EXCEPT !.result =
                              Some(OnChatError(chat(x.http).value).value)]]
             ELSE [at |-> "raised", l |-> l]
      [] at = "parse" ->
             IF ~l.response.some THEN [at |-> "raised", l |-> l]
             ELSE LET d == _parse_response(l.response.v)
                  IN  CASE Branch(d) = "final" ->
                               [at |-> "done",
                                l |-> [l EXCEPT !.directive = d,
                                                !.result = Some(d.final_answer.v)]]
                        [] Branch(d) = "tool" ->
                               [at |-> "tool", l |-> [l EXCEPT !.directive = d]]
                        [] OTHER ->
                               [at |-> "loop",
                                l |-> [l EXCEPT
                                         !.directive = d,
                                         !.messages =
                                             AppendNudge(@, l.response.v)]]
      [] at = "tool" ->
             LET r == _execute_tool(l.directive.tool_name.v,
                                    l.directive.tool_args.v, x.behaviour)
             IN  IF r.raised THEN [at |-> "raised", l |-> l]
                 ELSE [at |-> "loop",
                       l |-> [l EXCEPT
                                !.messages =
                                    AppendObservation(@, l.response.v,
                                                      r.value)]]
      [] OTHER -> [at |-> at, l |-> l]

ConcInit ==
    /\ RunInit
    /\ max_iterations \in 0..MaxConcIterations
    /\ frames = [f \in Runs |-> StartLocals(<<>>)]
    /\ threads = [r \in Runs |-> [at |-> "idle", query |-> <<>>, inputs |-> <<>>]]

\* a request calls agent.run(prompt)
ConcStart(r) ==
    /\ threads[r].at = "idle"
    /\ threads' = [threads EXCEPT ![r] = [at |-> "loop", query |-> QueryOf(r),
                                          inputs |-> <<>>]]
    /\ frames' = [frames EXCEPT ![FrameOf(r)] = StartLocals(QueryOf(r))]
    /\ UNCHANGED <<buildVars, runVars, TOOLS>>

\* call r takes its next step, given x
ConcStep(r, x) ==
    LET n == RunStep(threads[r].at, frames[FrameOf(r)], x, max_iterations)
    IN  /\ threads' = [threads EXCEPT ![r].at = n.at,
                                      ![r].inputs = Append(@, x)]
        /\ frames' = [frames EXCEPT ![FrameOf(r)] = n.l]
        /\ TOOLS' = IF threads[r].at = "tool"
                     THEN RegistryAfter(TOOLS,
                                        frames[FrameOf(r)].directive.tool_name.v)
                     ELSE TOOLS
        /\ UNCHANGED <<buildVars, runVars>>

\* the loop test, and iteration += 1 or the budget-exhausted return
ConcLoop(r) == threads[r].at = "loop" /\ ConcStep(r, NoInput)

\* self.client.chat(messages) returns or raises
ConcChat(r, http) ==
    threads[r].at = "chat" /\ ConcStep(r, [http |-> http, behaviour |-> ""])

\* _parse_response and the branch on its result
ConcParse(r) == threads[r].at = "parse" /\ ConcStep(r, NoInput)

\* _execute_tool and the two appends
ConcDispatch(r, behaviour) ==
    threads[r].at = "tool"
        /\ ConcStep(r, [http |-> NoHttp, behaviour |-> behaviour])

ConcNext ==
    \E r \in Runs :
        \/ ConcStart(r)
        \/ ConcLoop(r)
        \/ \E http \in ConcHttpOutcomes : ConcChat(r, http)
        \/ ConcParse(r)
        \/ \E behaviour \in Behaviours : ConcDispatch(r, behaviour)

ConcSpec == ConcInit /\ [][ConcNext]_vars

(***************************************************************************)
(* The agent of agent/agent.py and the agent that web_app_standalone.py    *)
(* carries inline, run side by side: frame 1 holds the locals of run of    *)
(* agent.py, frame 2 those of run of web_app_standalone.py.  Both are      *)
(* given the same query, the same max_iterations, the same outcome of each *)
(* completion call and the same behaviour of each tool.                    *)
(***************************************************************************)
Package == 1

Standalone == 2

\* one step of run of web_app_standalone.py from position at with locals l,
\* given x, for an agent with max_iterations = n: [at, l]
RunStep_standalone(at, l, x, n) ==
    CASE at = "loop" ->
             IF l.iteration < n
             THEN [at |-> "chat", l |-> [l EXCEPT !.iteration = @ + 1]]
             ELSE [at |-> "done",
                   l |-> [l EXCEPT !.result = Some(BudgetText_standalone(n))]]
      [] at = "chat" ->
             IF ~chat(x.http).raised
             THEN [at |-> "parse",
                   l |-> [l EXCEPT !.response = chat(x.http).value]]
             ELSE IF OnChatError(chat(x.http).value).returns
             THEN [at |-> "done",
                   l |-> [l EXCEPT !.result =
                              Some(OnChatError(chat(x.http).value).value)]]
             ELSE [at |-> "raised", l |-> l]
      [] at = "parse" ->
             IF ~l.response.some THEN [at |-> "raised", l |-> l]
             ELSE LET d == _parse_response_standalone(l.response.v)
                  IN  IF Truthy(d.final_answer)
                      THEN [at |-> "done",
                            l |-> [l EXCEPT !.directive = d,
                                            !.result = Some(d.final_answer.v)]]
                      ELSE IF Truthy(d.tool_name)
                      THEN [at |-> "tool", l |-> [l EXCEPT !.directive = d]]
                      ELSE [at |-> "loop",
                            l |-> [l EXCEPT
                                     !.directive = d,
                                     !.messages =
                                         @ \o <<Message("assistant", l.response.v),
                                                Message("user", NudgeText)>>]]
      [] at = "tool" ->
             LET r == _execute_tool_standalone(l.directive.tool_name.v,
                                               l.directive.tool_args.v,
                                               x.behaviour)
             IN  IF r.raised THEN [at |-> "raised", l |-> l]
                 ELSE [at |-> "loop",
                       l |-> [l EXCEPT
                                !.messages =
                                    @ \o <<Message("assistant", l.response.v),
                                           Message("user",
                                                   ObservationText(r.value))>>]]
      [] OTHER -> [at |-> at, l |-> l]

TwinInit ==
    /\ RunInit
    /\ max_iterations \in 0..MaxConcIterations
    /\ frames = [f \in Runs |-> StartLocals(<<>>)]
    /\ threads = [r \in Runs |-> [at |-> "idle", query |-> <<>>, inputs |-> <<>>]]

\* both agents are asked q
TwinStart(q) ==
    /\ \A r \in Runs : threads[r].at = "idle"
    /\ threads' = [r \in Runs |-> [at |-> "loop", query |-> q, inputs |-> <<>>]]
    /\ frames' = [f \in Runs |-> StartLocals(q)]
    /\ UNCHANGED <<buildVars, runVars, TOOLS>>

\* both runs take their next step, given the same x
TwinStep(x) ==
    LET p == RunStep(threads[Package].at, frames[Package], x, max_iterations)
        s == RunStep_standalone(threads[Standalone].at, frames[Standalone], x,
                                max_iterations)
    IN  /\ threads' = [r \in Runs |->
                          [threads[r] EXCEPT
                             !.at = IF r = Package THEN p.at ELSE s.at,
                             !.inputs = Append(@, x)]]
        /\ frames' = [f \in Runs |-> IF f = Package THEN p.l ELSE s.l]
        /\ TOOLS' = IF threads[Package].at = "tool"
                     THEN RegistryAfter(TOOLS,
                                        frames[Package].directive.tool_name.v)
                     ELSE TOOLS
        /\ UNCHANGED <<buildVars, runVars>>

\* both runs are at position at
TwinAt(at) == \A r \in Runs : threads[r].at = at

TwinLoop == TwinAt("loop") /\ TwinStep(NoInput)

TwinChat(http) ==
    TwinAt("chat") /\ TwinStep([http |-> http, behaviour |-> ""])

TwinParse == TwinAt("parse") /\ TwinStep(NoInput)

TwinDispatch(behaviour) ==
    TwinAt("tool") /\ TwinStep([http |-> NoHttp, behaviour |-> behaviour])

TwinNext ==
    \/ \E q \in Queries : TwinStart(q)
    \/ TwinLoop
    \/ \E http \in HttpOutcomes : TwinChat(http)
    \/ TwinParse
    \/ \E behaviour \in Behaviours : TwinDispatch(behaviour)

TwinSpec == TwinInit /\ [][TwinNext]_vars

(***************************************************************************)
(* get_agent of the web application: _build_agent behind                   *)
(* functools.lru_cache(maxsize=1), called by every chat request on a       *)
(* worker thread.  lru_cache looks the key up, calls the function on a     *)
(* miss without holding a lock, and stores its result unless the key was   *)
(* stored in the meantime; an exception is not stored.                     *)
(***************************************************************************)
MaxClients == 3

\* the chat requests in progress at a time
Clients == 1..MaxClients

\* CacheStore of a cache that holds on to nothing
CacheStoreNever(held, made) == held

\* the cache after a call of _build_agent returned made: an entry stored in
\* the meantime stays, else made is stored
CacheStore(held, made) == IF held.some THEN held ELSE Some(made)

\* _build_agent raises: OPENROUTER_API_KEY is not set or empty
BuildRaises(env) ==
    ~Truthy(env) \/ OpenRouterClient_init(env, env).raised

CacheInit ==
    /\ max_iterations = 1
    /\ pc = "unbuilt"
    /\ NoRun
    /\ environ \in EnvKeys
    /\ client = NoClient
    /\ given = None
    /\ self = NoAgent
    /\ TOOLS = Registry
    /\ quake = NoQuake
    /\ cache = None
    /\ builds = 0
    /\ serving = [c \in Clients |-> [at |-> "idle", agent |-> 0]]
    /\ frames = <<>>
    /\ threads = <<>>

\* agent = get_agent(): the cache holds an agent
GetAgentHit(c) ==
    /\ serving[c].at = "idle"
    /\ cache.some
    /\ serving' = [serving EXCEPT ![c] = [at |-> "run", agent |-> cache.v]]
    /\ UNCHANGED <<cache, builds>>
    /\ UNCHANGED <<environ, client, given, self, runVars, concVars, TOOLS, quake>>

\* agent = get_agent(): the cache is empty, _build_agent is called
GetAgentMiss(c) ==
    /\ serving[c].at = "idle"
    /\ ~cache.some
    /\ serving' = [serving EXCEPT ![c].at = "build"]
    /\ UNCHANGED <<cache, builds>>
    /\ UNCHANGED <<environ, client, given, self, runVars, concVars, TOOLS, quake>>

\* _build_agent returns a new agent: lru_cache stores and returns it
BuildAgentReturns(c) ==
    /\ serving[c].at = "build"
    /\ ~BuildRaises(environ)
    /\ builds' = builds + 1
    /\ cache' = CacheStore(cache, builds')
    /\ serving' = [serving EXCEPT ![c] = [at |-> "run", agent |-> builds']]
    /\ UNCHANGED <<environ, client, given, self, runVars, concVars, TOOLS, quake>>

\* _build_agent raises: nothing is stored, the request fails
BuildAgentRaises(c) ==
    /\ serving[c].at = "build"
    /\ BuildRaises(environ)
    /\ serving' = [serving EXCEPT ![c].at = "failed"]
    /\ UNCHANGED <<cache, builds>>
    /\ UNCHANGED <<environ, client, given, self, runVars, concVars, TOOLS, quake>>

\* the request is answered (the reply of agent.run, or the failure); the
\* next request of this worker can come
Respond(c) ==
    /\ serving[c].at \in {"run", "failed"}
    /\ serving' = [serving EXCEPT ![c].at = "idle"]
    /\ UNCHANGED <<cache, builds>>
    /\ UNCHANGED <<environ, client, given, self, runVars, concVars, TOOLS, quake>>

CacheNext ==
    \E c \in Clients :
        \/ GetAgentHit(c)
        \/ GetAgentMiss(c)
        \/ BuildAgentReturns(c)
        \/ BuildAgentRaises(c)
        \/ Respond(c)

CacheSpec == CacheInit /\ [][CacheNext]_vars

(***************************************************************************)
(* Calls of get_earthquake_data, one after the other: the call with its    *)
(* arguments, then the feed arrives (or the request fails) and the         *)
(* function returns its text.                                              *)
(***************************************************************************)
QuakeInit ==
    /\ RunInit
    /\ max_iterations = 1
    /\ frames = <<>>
    /\ threads = <<>>

\* get_earthquake_data(min_magnitude, region) is called and sends its request
QuakeCall(min_magnitude, region) ==
    /\ quake.at \in {"idle", "done"}
    /\ quake' = [NoQuake EXCEPT !.at = "fetch",
                                !.min_magnitude = min_magnitude,
                                !.region = region]
    /\ UNCHANGED <<environ, client, given, self, cacheVars, runVars, concVars,
                   TOOLS>>

\* requests.get and response.json() produce fetched; the rest of the
\* function runs and it returns
QuakeReturn(fetched) ==
    /\ quake.at = "fetch"
    /\ LET r == get_earthquake_data(quake.min_magnitude, quake.region, fetched)
       IN  quake' = [quake EXCEPT !.at = "done",
                                  !.fetched = fetched,
                                  !.earthquakes = r.earthquakes,
                                  !.value = r.value]
    /\ UNCHANGED <<environ, client, given, self, cacheVars, runVars, concVars,
                   TOOLS>>

QuakeNext ==
    \/ \E min_magnitude \in MinMagnitudes, region \in Regions :
           QuakeCall(min_magnitude, region)
    \/ \E fetched \in Fetches : QuakeReturn(fetched)

QuakeSpec == QuakeInit /\ [][QuakeNext]_vars

(***************************************************************************)
(* Properties.                                                             *)
(***************************************************************************)
Max0(n) == IF n > 0 THEN n ELSE 0

\* the Exception values client.chat raises
ChatErrors == {chat(h).value : h \in {x \in HttpOutcomes : chat(x).raised}}

\* C1: whatever client.chat returns or raises and whatever the tools do, run
\* returns a text and never raises to its caller.
C1_RunReturnsText ==
    /\ pc # "raised"
    /\ pc = "done" => result.some

\* C2: in every state of a run with configured maximum N (any integer), the
\* completion calls made so far are at most max(N, 0), and so are the tool
\* dispatches.
C2_CallsWithinBudget ==
    /\ calls <= Max0(max_iterations)
    /\ dispatches <= Max0(max_iterations)

C2_Witness ==
    /\ max_iterations >= 2
    /\ calls = max_iterations
    /\ dispatches = max_iterations

\* C3: a run in which no completion call fails and no reply yields a final
\* answer makes exactly N completion calls and then returns the
\* budget-exhausted message that names N; there is no (N+1)-th call.
C3_BudgetExhausted ==
    /\ (pc = "done" /\ ending \notin {"final", "comm_error"}) =>
           /\ result = Some(BudgetText(max_iterations))
           /\ calls = Max0(max_iterations)
           /\ iteration = Max0(max_iterations)
    /\ (pc = "loop" /\ calls >= Max0(max_iterations)) => ~ENABLED LoopEnter
    /\ calls <= Max0(max_iterations)

C3_Witness ==
    /\ pc = "done"
    /\ ending = "budget"
    /\ max_iterations = 2
    /\ calls = 2
    /\ dispatches = 1
    /\ result.v[2] = "2"

\* C4: when the k-th completion call fails, run returns at once the text
\* 'Error communicating with LLM: ' followed by the failure description,
\* after exactly k calls, with no dispatch and no transcript append after the
\* failed call; for k = 1 it has dispatched no tool.
C4_CommFailure ==
    ending = "comm_error" =>
        /\ pc = "done"
        /\ result.some
        /\ Head(result.v) = "Error communicating with LLM: "
        /\ Tail(result.v) \in ChatErrors
        /\ calls = iteration
        /\ Len(sent) = calls
        /\ messages = sent[calls]
        /\ Len(messages) = 2 * calls
        /\ dispatches <= calls - 1

C4_Witness ==
    /\ ending = "comm_error"
    /\ calls = 2
    /\ dispatches = 1
    /\ result.v[2] = "Unexpected API response format: "

\* C5: whenever the parser classifies a reply as a final answer, run ends in
\* that iteration and returns exactly the captured text, with no append, no
\* dispatch and no completion call after that reply.
C5_FinalAnswerTerminates ==
    directive.final_answer.some =>
        /\ pc = "done"
        /\ result = Some(directive.final_answer.v)
        /\ messages = sent[calls]

\* a reply that holds a FINAL ANSWER: marker and a TOOL: marker
HasBothMarkers(s) ==
    /\ \E i \in 1..Len(s) : s[i] \in FinalMarkers
    /\ \E i \in 1..Len(s) : s[i] \in ToolMarkers

\* C6: a reply that holds both a FINAL ANSWER: marker and a TOOL: marker, in
\* either order, is parsed as a final answer and never as a tool call, and
\* run dispatches no tool for it.
C6_FinalAnswerPrecedence ==
    (pc \in {"parse", "tool"} /\ response.some /\ HasBothMarkers(response.v)) =>
        /\ _parse_response(response.v).final_answer.some
        /\ ~_parse_response(response.v).tool_name.some
        /\ pc # "tool"

\* the classes of the exceptions a callable can raise
ExceptionClasses == {"TypeError", "Exception"}

\* C7: dispatch is total: for every tool name and argument mapping, whether
\* the callable returns, rejects the arguments or raises, _execute_tool
\* returns a text observation and never raises to run.
C7_DispatchTotal ==
    /\ ~tool.raised
    /\ dispatches > 0 => Len(tool.value) > 0
    /\ \A exc \in ExceptionClasses :
           ~HandleCall(<<"calculator">>,
                       [exc |-> exc, value |-> <<"failure">>]).raised

C7_Witness ==
    /\ pc = "loop"
    /\ tool.invoked
    /\ tool.name = <<"calculator">>
    /\ tool.args = EmptyDict
    /\ Head(fed) = "OBSERVATION: "

\* C8: dispatch to a name that is not in the registry invokes no callable
\* and returns the error observation that names the unknown tool and lists
\* every registered name; it does not raise.
C8_UnknownTool ==
    /\ invocations <= dispatches
    /\ (dispatches > 0 /\ ~IsRegistered(tool.name)) =>
           /\ ~tool.invoked
           /\ ~tool.raised
           /\ Head(tool.value) = "ERROR: Unknown tool '"
           /\ SubSeq(tool.value, 2, 1 + Len(tool.name)) = tool.name
           /\ \A n \in ToolNames : \E i \in 1..Len(tool.value) : tool.value[i] = n
           /\ \A b \in Behaviours :
                  _execute_tool(tool.name, tool.args, b).value = tool.value

C8_Witness ==
    /\ pc = "loop"
    /\ dispatches = 2
    /\ invocations = 1
    /\ tool.name = <<"bogus">>

\* C9: a callable that rejects the argument set gets the observation that
\* names the tool and the argument mismatch; a callable that raises for
\* another reason gets the generic 'Tool execution failed' observation with
\* the failure description; each kind has its own observation and neither
\* raises.
C9_FailureKinds ==
    /\ (tool.invoked /\ ~Binds(tool.name[1], tool.args)) =>
           /\ ~tool.raised
           /\ tool.value =
                  <<"ERROR: Invalid arguments for tool '">> \o tool.name
                      \o <<"': ">>
                      \o CallTool(tool.name[1], tool.args, "succeeds").value
    /\ (tool.invoked /\ Binds(tool.name[1], tool.args)) =>
           Head(tool.value) \notin {"ERROR: Invalid arguments for tool '",
                                    "ERROR: Tool execution failed: "}
    /\ \A n \in ToolNames :
           /\ HandleCall(<<n>>, [exc |-> "Exception", value |-> <<"failure">>])
                  = [raised |-> FALSE,
                     value |-> <<"ERROR: Tool execution failed: ", "failure">>]
           /\ Head(HandleCall(<<n>>, [exc |-> "TypeError",
                                       value |-> <<"failure">>]).value)
                  = "ERROR: Invalid arguments for tool '"

C9_Witness ==
    /\ pc = "loop"
    /\ tool.invoked
    /\ tool.name = <<"calculator">>
    /\ "colour" \in DOMAIN tool.args
    /\ Head(tool.value) = "ERROR: Invalid arguments for tool '"

\* C10: only a failure of the completion client ends a run early: an unknown
\* tool, an argument mismatch, a tool failure or an unrecognized reply never
\* does, and the transcript of the next completion call ends with the text
\* that describes the failure.
C10_OnlyCommFailureEndsEarly ==
    /\ (pc \in {"done", "raised"} /\ ending \notin {"final", "budget"}) =>
           ending = "comm_error"
    /\ (pc = "parse" /\ calls >= 2) =>
           sent[calls][Len(sent[calls])].content = fed

\* the reply of this iteration has been parsed
Parsed ==
    /\ response.some
    /\ Len(directives) = calls
    /\ pc \in {"tool", "loop", "done", "raised"}

\* and what it asks for has been carried out: the run went on to the next
\* loop test, or ended
Handled == Parsed /\ pc # "tool"

\* C11: for a reply with a TOOL marker and no final answer whose ARGS block is
\* absent or does not parse as JSON, the parser yields the tool call with that
\* name and the empty mapping, and the run dispatches the tool with no
\* arguments and feeds the observation back instead of aborting.
C11_MalformedArgs ==
    (/\ Parsed
     /\ FinalMatchStarts(response.v) = {}
     /\ ToolMatchStarts(response.v) # {}
     /\ ~ArgsParse(response.v))
        => /\ directive =
                [tool_name |->
                     Some(ToolGroup(response.v,
                                    Leftmost(ToolMatchStarts(response.v)))),
                 tool_args |-> Some(EmptyDict),
                 final_answer |-> None]
           /\ pc # "raised"
           /\ pc # "tool" =>
                  /\ tool.iteration = iteration
                  /\ tool.name = directive.tool_name.v
                  /\ tool.args = EmptyDict
                  /\ fed = ObservationText(tool.value)
                  /\ messages[Len(messages)] = Message("user", fed)
                  /\ ending # "raised"

\* the ARGS block is there and is no JSON: calculator was dispatched with no
\* arguments
C11_Witness ==
    /\ Handled
    /\ ToolMatchStarts(response.v) # {}
    /\ ArgsMatchStarts(response.v) # {}
    /\ ~ArgsParse(response.v)
    /\ tool.name = <<"calculator">>
    /\ tool.args = EmptyDict
    /\ dispatches = 1

\* a token with its marker in upper case
UpperMarker(tok) ==
    CASE tok = "final answer:" -> "FINAL ANSWER:"
      [] tok = "tool:" -> "TOOL:"
      [] tok = "args:" -> "ARGS:"
      [] OTHER -> tok

\* the reply with every marker in upper case
UpperMarkers(s) == [i \in 1..Len(s) |-> UpperMarker(s[i])]

\* C12: a reply in any casing of FINAL ANSWER:, TOOL: and ARGS: yields the
\* directive of the same reply with the markers in upper case.  (Checked on
\* the replies of ToolReplies and FinalReplies, where a marker token is
\* nowhere part of a tool name or of an answer.)
C12_MarkersAnyCase ==
    (Parsed /\ response.v \in ToolReplies \cup FinalReplies)
        => directive = _parse_response(UpperMarkers(response.v))

\* the text after the first FINAL ANSWER: marker of a reply that has one
AfterFinalMarker(s) == SubSeq(s, Leftmost(FinalMarkerAt(s)) + 1, Len(s))

HasLineBreak(s) == \E i \in 1..Len(s) : s[i] = NL

\* C13: for a reply with 'FINAL ANSWER: X' in any casing and no line break
\* after the marker, the parser returns the final answer X stripped of its
\* surrounding white space, and no tool call.
C13_SingleLineFinal ==
    (/\ Parsed
     /\ FinalMarkerAt(response.v) # {}
     /\ AfterFinalMarker(response.v) # <<>>
     /\ ~HasLineBreak(AfterFinalMarker(response.v)))
        => directive = [tool_name |-> None, tool_args |-> None,
                        final_answer |->
                            Some(RStrip(LStrip(AfterFinalMarker(response.v))))]

\* a lower-case marker, and white space on both sides of the answer
C13_Witness ==
    /\ Parsed
    /\ response.v = <<"?", NL, "final answer:", SP, "42", SP>>
    /\ directive.final_answer = Some(<<"42">>)
    /\ result = Some(<<"42">>)

\* the text up to its first line break, or all of it
RECURSIVE FirstLine(_)
FirstLine(s) ==
    IF s = <<>> \/ Head(s) = NL THEN <<>>
    ELSE <<Head(s)>> \o FirstLine(Tail(s))

\* C14 as stated: the answer is the text between the marker and the first
\* line break after the marker, so with a line break directly after the
\* marker it holds nothing of the lines that follow.
C14_UpToFirstLineBreak ==
    (/\ Parsed
     /\ FinalMarkerAt(response.v) # {}
     /\ AfterFinalMarker(response.v) # <<>>)
        => directive.final_answer =
               Some(RStrip(LStrip(FirstLine(AfterFinalMarker(response.v)))))

\* C14: the final-answer capture starts at the first character after the
\* marker that is no white space (blanks and line breaks are skipped first)
\* and runs up to the first line break after that character, or to the end of
\* the reply: the answer holds nothing from beyond that line break.
C14_FirstLineOfText ==
    (/\ Parsed
     /\ FinalMarkerAt(response.v) # {}
     /\ AfterFinalMarker(response.v) # <<>>)
        => directive.final_answer =
               Some(RStrip(FirstLine(LStrip(AfterFinalMarker(response.v)))))

\* a line break directly after the marker, then two lines: the answer is the
\* first of them
C14_Witness ==
    /\ Parsed
    /\ response.v = <<"FINAL ANSWER:", NL, "42", NL, "bogus">>
    /\ directive.final_answer = Some(<<"42">>)

\* the three variants of a directive
IsToolCall(d) ==
    d.tool_name.some /\ d.tool_args.some /\ ~d.final_answer.some

IsFinalAnswer(d) ==
    ~d.tool_name.some /\ ~d.tool_args.some /\ d.final_answer.some

IsUnrecognized(d) ==
    ~d.tool_name.some /\ ~d.tool_args.some /\ ~d.final_answer.some

VariantsOf(d) ==
    {v \in {"tool call", "final answer", "unrecognized"} :
        \/ v = "tool call" /\ IsToolCall(d)
        \/ v = "final answer" /\ IsFinalAnswer(d)
        \/ v = "unrecognized" /\ IsUnrecognized(d)}

IsAnswerText(t) ==
    /\ t # <<>>
    /\ ~HasLineBreak(t)
    /\ RStrip(LStrip(t)) = t

\* the first reply of the run was a tool call and the second one, which run
\* has dealt with, is 'FINAL ANSWER: T'
Scripted ==
    /\ Len(replies) = 2
    /\ pc # "parse"
    /\ replies[1].some
    /\ IsToolCall(_parse_response(replies[1].v))
    /\ replies[2].some
    /\ Len(replies[2].v) > 2
    /\ SubSeq(replies[2].v, 1, 2) = <<"FINAL ANSWER:", SP>>
    /\ IsAnswerText(SubSeq(replies[2].v, 3, Len(replies[2].v)))

\* C16: when the first reply is a tool call and the second is
\* 'FINAL ANSWER: T', run returns exactly T after exactly two calls of the
\* completion client and exactly one tool dispatch, and the transcript of
\* the second call is [system, user query, assistant first reply,
\* user 'OBSERVATION: ' + tool result].
C16_ScriptedRun ==
    Scripted =>
        /\ pc = "done"
        /\ result = Some(SubSeq(replies[2].v, 3, Len(replies[2].v)))
        /\ calls = 2
        /\ Len(sent) = 2
        /\ dispatches = 1
        /\ tool.iteration = 1
        /\ sent[2] = << Message("system", system_prompt),
                        Message("user", user_query),
                        Message("assistant", replies[1].v),
                        Message("user", <<"OBSERVATION: ">> \o tool.value) >>

\* calculator is asked for 2+2, then the final answer is 42
C16_Witness ==
    /\ Scripted
    /\ replies[1].v = <<"TOOL:", SP, "calculator", NL,
                        "ARGS:", SP, "{", "expression:2+2", "}">>
    /\ tool.value = <<"Calculation result: ", "2+2", " = ", "4">>
    /\ result = Some(<<"42">>)

\* the text of a number that is k halves: "4" has no such form, "4.0" and
\* "3.5" have
IsHalvesText(text, k) ==
    LET n == IF k < 0 THEN -k ELSE k
        digits == ToString(n \div 2) \o (IF n % 2 = 0 THEN ".0" ELSE ".5")
    IN  text = (IF k < 0 THEN "-" \o digits ELSE digits)

\* text is the value of the expression t as Python prints it: an int for
\* +, - and *, the float of the true division for /
IsValueOf(text, t) ==
    CASE t.op = "+" -> text = ToString(t.a + t.b)
      [] t.op = "-" -> text = ToString(t.a - t.b)
      [] t.op = "*" -> text = ToString(t.a * t.b)
      [] OTHER -> \E k \in (-2 * MaxOperand)..(2 * MaxOperand) :
                      k * t.b = 2 * t.a /\ IsHalvesText(text, k)

\* C17: for a reply that names the calculator with ARGS {"expression": e},
\* e an arithmetic expression over bounded integers that has a value, dispatch
\* invokes the calculator with expression = e and the observation holds the
\* value of e (for "2+2", the literal 4).
C17_CalculatorValue ==
    \A t \in Terms :
        (/\ Handled
         /\ response.v = CalcReply(ExprText(t))
         /\ (t.op = "/" => t.b # 0))
            => /\ tool.iteration = iteration
               /\ tool.name = <<"calculator">>
               /\ tool.invoked
               /\ DOMAIN tool.args = {"expression"}
               /\ tool.args["expression"] = ExprText(t)
               /\ Len(tool.value) = 4
               /\ SubSeq(tool.value, 1, 3) =
                      <<"Calculation result: ", ExprText(t), " = ">>
               /\ IsValueOf(tool.value[4], t)
               /\ fed = <<"OBSERVATION: ">> \o tool.value

\* the observation of "2+2" holds 4
C17_Witness ==
    /\ Handled
    /\ response.v = CalcReply("2+2")
    /\ tool.args = [k \in {"expression"} |-> "2+2"]
    /\ fed = <<"OBSERVATION: ", "Calculation result: ", "2+2", " = ", "4">>

\* the call run(q) alone on an agent with max_iterations = n, after the steps
\* that were given xs: [at, l]
RECURSIVE RunAlone(_, _, _)
RunAlone(q, n, xs) ==
    IF xs = <<>> THEN [at |-> "loop", l |-> StartLocals(q)]
    ELSE LET before == RunAlone(q, n, SubSeq(xs, 1, Len(xs) - 1))
         IN  RunStep(before.at, before.l, xs[Len(xs)], n)

\* the replies call r received from client.chat
RepliesOf(r) ==
    {threads[r].inputs[i].http.content : i \in 1..Len(threads[r].inputs)}

\* the loop entries of call r: its steps from the loop test into the body
RECURSIVE Entries(_, _, _)
Entries(q, n, xs) ==
    IF xs = <<>> THEN 0
    ELSE LET before == RunAlone(q, n, SubSeq(xs, 1, Len(xs) - 1))
         IN  Entries(q, n, SubSeq(xs, 1, Len(xs) - 1))
                 + (IF before.at = "loop" /\ RunAlone(q, n, xs).at = "chat"
                    THEN 1 ELSE 0)

\* C18: with several calls of run in progress on one agent, under every
\* interleaving of their steps, the transcript of each call holds its own
\* query and only replies it received itself, each call counts its own
\* iterations only, and each call is where, and returns what, it would be and
\* return alone with the same replies and tool outcomes.
C18_RunsIsolated ==
    \A r \in Runs :
        threads[r].at # "idle" =>
            LET l == frames[FrameOf(r)]
                alone == RunAlone(threads[r].query, max_iterations,
                                  threads[r].inputs)
            IN  /\ l.messages[2] = Message("user", threads[r].query)
                /\ \A k \in 1..Len(l.messages) :
                       l.messages[k].role = "assistant" =>
                           Some(l.messages[k].content) \in RepliesOf(r)
                /\ l.iteration = Entries(threads[r].query, max_iterations,
                                         threads[r].inputs)
                /\ l.iteration <= Max0(max_iterations)
                /\ threads[r].at = alone.at
                /\ l.messages = alone.l.messages
                /\ l.result = alone.l.result

\* both calls are in their second iteration, one after a tool call and one
\* after a nudge, and then both have returned
C18_Witness ==
    /\ threads[1].at = "done"
    /\ threads[2].at = "done"
    /\ frames[1].iteration = 2
    /\ frames[2].iteration = 2
    /\ frames[1].result = Some(<<"42">>)
    /\ frames[2].result = Some(BudgetText(2))
    /\ frames[1].messages[4].content = NudgeText
    /\ frames[2].messages[4].content # NudgeText
    /\ Len(frames[2].messages) = 6

\* C19: a missing API credential is detected at construction only: the
\* construction with no api_key argument and no OPENROUTER_API_KEY fails, no
\* agent is built and no run starts without a credential, and a run that
\* started has the credential for every request it makes.
C19_CredentialAtConstruction ==
    /\ (pc # "unbuilt" /\ ~Truthy(given) /\ ~Truthy(environ)) => pc = "failed"
    /\ client.built => Truthy(client.api_key)
    /\ pc \in {"unbuilt", "failed"} =>
           /\ ~client.built
           /\ user_query = <<>>
           /\ messages = <<>>
           /\ calls = 0
           /\ result = None
    /\ pc \notin {"unbuilt", "failed"} =>
           /\ client.built
           /\ Truthy(client.api_key)
           /\ client.api_key = PyOr(given, environ)

\* the construction with no argument and no variable has failed
C19_Witness ==
    /\ pc = "failed"
    /\ given = None
    /\ environ = None
    /\ ~client.built
    /\ calls = 0

\* the descriptions of the failures of client.chat: the request fails, or the
\* response lacks the reply field
ChatFailureTexts ==
    {<<"OpenRouter API error: ", k>> : k \in RequestFailures}
        \cup {<<"Unexpected API response format: ", k>> : k \in FormatFailures}
        \cup {<<k>> : k \in ShapeFailures}

\* C20: one call of client.chat makes exactly one HTTP request and never
\* retries, and it either returns the reply text of the first choice or raises
\* a communication failure (the request fails, times out, has an error status,
\* or the response lacks the reply field).
C20_OneRequestTextOrFailure ==
    /\ posts = calls
    /\ Len(replies) <= calls
    /\ \A k \in 1..Len(replies) : replies[k].some
    /\ ending = "comm_error" =>
           /\ Len(replies) = calls - 1
           /\ Tail(result.v) \in ChatFailureTexts


(***************************************************************************)
(* What one iteration of run does with the reply, by its classification.   *)
(***************************************************************************)
\* the iterations whose reply was parsed as a tool call, so far
ToolCallIterations == {k \in 1..Len(directives) : IsToolCall(directives[k])}

\* transcript t with the two messages (assistant, reply), (user, text) added
WithExchange(t, reply, text) ==
    t \o <<[role |-> "assistant", content |-> reply],
           [role |-> "user", content |-> text]>>

\* C21: when the reply is classified as a tool call, run dispatches it first
\* (nothing is appended until the dispatch is over) and then appends exactly
\* two messages: the raw reply as assistant message, then "OBSERVATION: " +
\* the dispatch result as user message; it goes on to the next loop test, and
\* the next completion call is sent the transcript with these two messages.
C21_ToolCallAppends ==
    /\ (Parsed /\ IsToolCall(directive) /\ pc = "tool") =>
           /\ messages = sent[calls]
           /\ tool.iteration # iteration
           /\ dispatches = Cardinality(ToolCallIterations) - 1
    /\ (Handled /\ IsToolCall(directive)) =>
           /\ tool.iteration = iteration
           /\ dispatches = Cardinality(ToolCallIterations)
           /\ messages = WithExchange(sent[calls], replies[calls].v,
                                      <<"OBSERVATION: ">> \o tool.value)
           /\ pc = "loop" \/ (pc = "done" /\ ending = "budget")
    /\ \A k \in ToolCallIterations :
           k < Len(sent) =>
               \E text \in {SubSeq(sent[k + 1][Len(sent[k + 1])].content, 2,
                              Len(sent[k + 1][Len(sent[k + 1])].content))} :
                   sent[k + 1] =
                       WithExchange(sent[k], replies[k].v,
                                    <<"OBSERVATION: ">> \o text)

\* the completion call that follows a dispatched tool call has been made
C21_Witness ==
    /\ pc = "parse"
    /\ calls = 2
    /\ IsToolCall(directives[1])
    /\ tool.iteration = 1
    /\ Len(sent[2]) = 4


\* C22: when the reply is classified as unrecognized, run dispatches no tool,
\* appends the raw reply as assistant message and then the fixed nudge as user
\* message, and goes on to the next loop test; the reply has used one
\* iteration of the budget.
C22_UnrecognizedNudged ==
    /\ (Parsed /\ IsUnrecognized(directive)) =>
           /\ pc # "tool"
           /\ tool.iteration # iteration
           /\ dispatches = Cardinality(ToolCallIterations)
           /\ messages =
                  WithExchange(
                      sent[calls], replies[calls].v,
                      <<"Please either use a tool (TOOL: ... ARGS: ...) or provide a FINAL ANSWER.">>)
           /\ pc = "loop" \/ (pc = "done" /\ ending = "budget")
           /\ iteration = calls
    /\ \A k \in 1..Len(directives) :
           (IsUnrecognized(directives[k]) /\ k < Len(sent)) =>
               sent[k + 1] =
                   WithExchange(
                       sent[k], replies[k].v,
                       <<"Please either use a tool (TOOL: ... ARGS: ...) or provide a FINAL ANSWER.">>)

\* an unrecognized reply was the last the budget allowed: the run ends with
\* the budget message after the nudge
C22_Witness ==
    /\ pc = "done"
    /\ ending = "budget"
    /\ calls = 2
    /\ IsUnrecognized(directives[1])
    /\ IsUnrecognized(directives[2])
    /\ dispatches = 0
    /\ Len(messages) = 6


\* the completion client returned in this iteration and run is through with
\* what it returned
IterationOver ==
    /\ calls >= 1
    /\ Len(replies) = calls
    /\ iteration = calls
    /\ pc \in {"loop", "done", "raised"}

\* what has occurred in this iteration, of tool dispatch, corrective nudge and
\* termination with a final answer
Outcomes ==
    {o \in {"dispatch", "nudge", "final"} :
        \/ o = "dispatch" /\ tool.iteration = iteration
        \/ o = "nudge" /\
               messages =
                   WithExchange(
                       sent[calls], replies[calls].v,
                       <<"Please either use a tool (TOOL: ... ARGS: ...) or provide a FINAL ANSWER.">>)
        \/ o = "final" /\ pc = "done" /\ ending = "final"}

\* C23: in every iteration in which the completion client returns, exactly
\* one of tool dispatch, corrective nudge and termination with a final answer
\* occurs.
C23_ExactlyOneOutcome == IterationOver => Cardinality(Outcomes) = 1

\* the same for the iterations in which the returned content is a text
C23_ExactlyOneOutcomeOfText ==
    (IterationOver /\ response.some) => Cardinality(Outcomes) = 1


\* C24: the branch run takes agrees with the parser's result for the reply:
\* it ends with a final answer iff the parser returned the final-answer
\* variant (whatever its text), dispatches iff it returned a tool call, and
\* sends the nudge iff it returned unrecognized.
C24_BranchAgreesWithParser ==
    (IterationOver /\ response.some) =>
        /\ "final" \in Outcomes <=> IsFinalAnswer(directives[calls])
        /\ "dispatch" \in Outcomes <=> IsToolCall(directives[calls])
        /\ "nudge" \in Outcomes <=> IsUnrecognized(directives[calls])

\* the same for the replies whose final answer, if any, is not empty
C24_BranchAgreesUnlessEmptyAnswer ==
    (IterationOver /\ response.some
         /\ (IsFinalAnswer(directives[calls]) =>
                 directives[calls].final_answer.v # <<>>)) =>
        /\ "final" \in Outcomes <=> IsFinalAnswer(directives[calls])
        /\ "dispatch" \in Outcomes <=> IsToolCall(directives[calls])
        /\ "nudge" \in Outcomes <=> IsUnrecognized(directives[calls])


\* C25: every tool dispatch of a run is caused by a completion reply of the
\* same iteration that was classified as a tool call, and the dispatched name
\* and arguments are those parsed from that reply; there is no dispatch before
\* the first completion call, after a final answer, or after a communication
\* failure.
C25_DispatchCausedByToolCall ==
    /\ [][dispatches' > dispatches =>
              /\ dispatches' = dispatches + 1
              /\ calls >= 1
              /\ Len(replies) = calls
              /\ iteration = calls
              /\ ending = ""
              /\ replies[calls].some
              /\ IsToolCall(_parse_response(replies[calls].v))
              /\ tool'.iteration = iteration
              /\ tool'.name = _parse_response(replies[calls].v).tool_name.v
              /\ tool'.args = _parse_response(replies[calls].v).tool_args.v
              /\ calls' = calls]_vars
    /\ [](calls = 0 => dispatches = 0)
    /\ [](ending \in {"final", "comm_error"} =>
              /\ tool.iteration < iteration
              /\ dispatches = Cardinality(ToolCallIterations)
              /\ calls \notin ToolCallIterations)

\* a second dispatch of a run, with arguments parsed from the reply
C25_Witness ==
    /\ dispatches = 2
    /\ tool.iteration = 2
    /\ tool.name = <<"calculator">>
    /\ tool.args # EmptyDict
    /\ tool.args = directives[2].tool_args.v


\* the completion calls run has started and that have not returned or failed
\* yet, and the tool calls it parsed and has not dispatched to the end yet
CallsInFlight == iteration - calls

DispatchesInFlight == Cardinality(ToolCallIterations) - dispatches

\* C26: within one run the iterations are sequential: each iteration makes
\* exactly one completion call and at most one tool dispatch, the dispatch is
\* over before the next completion call starts, and at no time are two
\* completion calls or tool dispatches of the run in flight.
C26_IterationsSequential ==
    /\ [][iteration' > iteration =>
              /\ iteration' = iteration + 1
              /\ calls = iteration
              /\ DispatchesInFlight = 0]_vars
    /\ [][calls' > calls =>
              /\ calls' = calls + 1
              /\ calls' = iteration
              /\ DispatchesInFlight = 0
              /\ dispatches' = dispatches]_vars
    /\ [][dispatches' > dispatches =>
              /\ dispatches' = dispatches + 1
              /\ tool.iteration < iteration
              /\ tool'.iteration = iteration
              /\ CallsInFlight = 0
              /\ calls' = calls]_vars
    /\ [](/\ CallsInFlight \in {0, 1}
          /\ DispatchesInFlight \in {0, 1}
          /\ CallsInFlight + DispatchesInFlight <= 1
          /\ CallsInFlight = 1 <=> pc = "chat"
          /\ DispatchesInFlight = 1 <=> pc = "tool"
          /\ dispatches <= calls)

\* the third iteration is at its completion call after two iterations with a
\* dispatch each
C26_Witness ==
    /\ pc = "chat"
    /\ iteration = 3
    /\ calls = 2
    /\ dispatches = 2


\* the first position of a non-empty set of positions
First(S) == CHOOSE x \in S : \A y \in S : x <= y

\* the arguments of the first ARGS block of reply s: the JSON object it
\* holds; no arguments when there is no block or it is not a JSON object
FirstArgsOf(s) ==
    IF ArgsMatchStarts(s) # {} /\ JsonValid(ArgsGroup(s, First(ArgsMatchStarts(s))))
    THEN JsonLoads(ArgsGroup(s, First(ArgsMatchStarts(s))))
    ELSE EmptyDict

\* reply s has no FINAL ANSWER marker and two or more TOOL markers, each
\* followed by a name
RequestsSeveralTools(s) ==
    /\ \A i \in 1..Len(s) : s[i] \notin FinalMarkers
    /\ Cardinality({i \in 1..Len(s) : s[i] \in ToolMarkers}) >= 2
    /\ {i \in 1..Len(s) : s[i] \in ToolMarkers} = ToolMatchStarts(s)

StrictPrefix(s, t) == Len(s) < Len(t) /\ SubSeq(t, 1, Len(s)) = s

\* C28: the transcript of a run is append-only: the transcript sent with a
\* completion call is a strict prefix of the one sent with the next call of
\* the run, and no step of the run removes, reorders or changes a message.
C28_TranscriptAppendOnly ==
    /\ [](\A k \in 1..(Len(sent) - 1) : StrictPrefix(sent[k], sent[k + 1]))
    /\ [](calls >= 1 =>
              \/ sent[calls] = messages
              \/ StrictPrefix(sent[calls], messages))
    /\ [][(pc \in {"loop", "chat", "parse", "tool"} /\ messages' # messages) =>
              StrictPrefix(messages, messages')]_vars

\* three completion calls, after a tool call and an unrecognized reply
C28_Witness ==
    /\ Len(sent) = 3
    /\ Len(directives) >= 2
    /\ IsToolCall(directives[1])
    /\ IsUnrecognized(directives[2])
    /\ StrictPrefix(sent[2], sent[3])


\* C29: the first completion call of a run is sent exactly two messages, the
\* system message with the protocol instructions and the tool catalog and the
\* user message with the query as it was given, and every later call of the
\* run is sent a transcript that starts with these two.
C29_InitialMessages ==
    /\ Len(sent) >= 1 => Len(sent[1]) = 2
    /\ \A k \in 1..Len(sent) :
           /\ Len(sent[k]) >= 2
           /\ sent[k][1] =
                  [role |-> "system",
                   content |->
                       <<"You are a helpful assistant that uses a ReAct approach",
                         "Available Tools">>]
           /\ sent[k][2] = [role |-> "user", content |-> user_query]
           /\ user_query \in Queries

\* a third completion call of a run, with the two initial messages first
C29_Witness ==
    /\ Len(sent) = 3
    /\ Len(sent[3]) = 6
    /\ sent[3][1].role = "system"
    /\ sent[3][2] = [role |-> "user", content |-> <<"Weather in Boise?">>]
    /\ sent[1] = SubSeq(sent[3], 1, 2)


\* the roles of transcript t: system first, then user and assistant in turn
RolesAlternate(t) ==
    /\ Len(t) >= 1 => t[1].role = "system"
    /\ \A i \in 2..Len(t) :
           t[i].role = (IF i % 2 = 0 THEN "user" ELSE "assistant")

\* the k-th completion call is sent 2k messages, system first and then user
\* and assistant in turn, so that the last one sent is a user message and no
\* two assistant messages are adjacent
TranscriptShape ==
    /\ \A k \in 1..Len(sent) :
           /\ Len(sent[k]) = 2 * k
           /\ RolesAlternate(sent[k])
           /\ sent[k][Len(sent[k])].role = "user"
           /\ \A i \in 1..(Len(sent[k]) - 1) :
                  ~(sent[k][i].role = "assistant"
                        /\ sent[k][i + 1].role = "assistant")
    /\ RolesAlternate(messages)

\* C30 as stated: the shape of the transcript at each completion call, and
\* the transcript of a run never holds more than 2 + 2N messages.
C30_TranscriptShapeAndSize ==
    /\ TranscriptShape
    /\ pc # "idle" => Len(messages) <= 2 + 2 * max_iterations

\* C30: the shape of the transcript at each completion call, and the
\* transcript of a run never holds more than 2 + 2 * max(N, 0) messages: the
\* two initial messages are there for every N.
C30_TranscriptShapeAndSizeFromZero ==
    /\ TranscriptShape
    /\ pc # "idle" => Len(messages) <= 2 + 2 * Max0(max_iterations)

\* a run with N = 3 used its budget: three calls with 2, 4 and 6 messages,
\* and 2 + 2N messages at the end
C30_Witness ==
    /\ max_iterations = 3
    /\ calls = 3
    /\ Len(sent[3]) = 6
    /\ Len(messages) = 8
    /\ messages[8].role = "user"
    /\ ending = "budget"


\* C31: run and the tool dispatch leave the shared state as it is: over any
\* number of runs, one after the other or concurrent, the fields of the agent
\* (client, max_iterations, verbose, system_prompt) and the tool registry
\* (its names and the callable bound to each) keep the values they have after
\* the construction.
C31_SharedStateUnchanged ==
    /\ [][/\ client' = client
          /\ max_iterations' = max_iterations
          /\ self' = self
          /\ TOOLS' = TOOLS]_vars
    /\ [](/\ client = [built |-> TRUE, api_key |-> Some(<<"sk-env">>)]
          /\ self.verbose = FALSE
          /\ self.system_prompt =
                 <<"You are a helpful assistant that uses a ReAct approach",
                   "Available Tools">>
          /\ DOMAIN TOOLS = {"calculator", "get_weather", "get_earthquake_data",
                             "search_arxiv", "get_currency_exchange"}
          /\ \A name \in DOMAIN TOOLS : TOOLS[name] = name)

\* two concurrent runs are over, each after a tool dispatch
C31_Witness ==
    /\ threads # <<>>
    /\ \A r \in Runs :
           /\ threads[r].at = "done"
           /\ \E i \in 1..Len(threads[r].inputs) :
                  threads[r].inputs[i].behaviour # ""


\* the agents that serve or have served the requests
ServingAgents == {serving[c].agent : c \in {x \in DOMAIN serving : serving[x].agent # 0}}

\* C32: over any sequence or interleaving of chat requests, get_agent builds
\* the agent at most once, and every request is served by that one agent.
C32_SingleCachedAgent ==
    /\ builds <= 1
    /\ Cardinality(ServingAgents) <= 1

\* what holds of the cache: once an agent is stored it stays, no call of
\* _build_agent starts after that, and every request that calls get_agent from
\* then on gets the stored agent
C32_CachedAgentKept ==
    /\ [][cache.some => cache' = cache]_vars
    /\ [][\A c \in DOMAIN serving :
              (cache.some /\ serving[c].at = "idle" /\ serving'[c].at # "idle") =>
                  serving'[c] = [at |-> "run", agent |-> cache.v]]_vars
    /\ [](builds <= MaxClients)


\* run is under way
Running == pc \in {"loop", "chat", "parse", "tool"}

\* C33: every run terminates: when every completion call and every tool call
\* returns or fails, run reaches a terminal state with an answer (the final
\* answer, the communication-error answer or the budget-exhausted answer),
\* within N iterations, whatever the replies.
C33_RunTerminatesWithAnswer ==
    /\ Running ~>
           (pc = "done" /\ ending \in {"final", "comm_error", "budget"}
                /\ result.some)
    /\ [](iteration <= Max0(max_iterations))

\* every run ends, with an answer or with the exception of a content that is
\* no text, within N iterations
C33_RunEnds ==
    /\ Running ~> (pc \in {"done", "raised"})
    /\ [](iteration <= Max0(max_iterations))
    /\ [](pc = "raised" => ~response.some)


\* C34: the text run returns is never empty: in every terminal state with a
\* returned text it is a non-empty final answer, the communication-error
\* message or the budget-exhausted message.
C34_ReturnedTextNotEmpty ==
    pc = "done" =>
        /\ result.some
        /\ result.v # <<>>
        /\ \A i \in 1..Len(result.v) : result.v[i] # ""
        /\ \/ /\ ending = "final"
              /\ result.v = directives[calls].final_answer.v
              /\ result.v[1] \notin Whitespace
              /\ result.v[Len(result.v)] \notin Whitespace
           \/ /\ ending = "comm_error"
              /\ Head(result.v) = "Error communicating with LLM: "
           \/ /\ ending = "budget"
              /\ Head(result.v) =
                     "I apologize, but I couldn't complete the task within "

\* a reply whose final answer is empty was not returned: the run went on and
\* ended with a later, non-empty final answer
C34_Witness ==
    /\ pc = "done"
    /\ ending = "final"
    /\ calls = 2
    /\ IsFinalAnswer(directives[1])
    /\ directives[1].final_answer.v = <<>>
    /\ result.v = <<"42">>


\* the well-formed JSON objects that follow the first 'ARGS:' marker of reply
\* s, after white space if any
ObjectsAfterArgs(s) ==
    LET marks == {i \in 1..Len(s) : s[i] = "ARGS:"}
    IN  IF marks = {} THEN {}
        ELSE {SubSeq(s, AfterWs(s, First(marks)), e) :
                  e \in {x \in AfterWs(s, First(marks))..Len(s) :
                            JsonValid(SubSeq(s, AfterWs(s, First(marks)), x))}}

\* reply s has no FINAL ANSWER marker, a TOOL marker with a name, and an
\* 'ARGS:' marker followed by a well-formed JSON object
HasToolAndObject(s) ==
    /\ \A i \in 1..Len(s) : s[i] \notin FinalMarkers
    /\ ToolMatchStarts(s) # {}
    /\ ObjectsAfterArgs(s) # {}

\* the reply of this iteration has been parsed
ParsedReply ==
    /\ calls >= 1
    /\ Len(replies) = calls
    /\ Len(directives) = calls
    /\ replies[calls].some

\* C35: for every reply without a FINAL ANSWER marker that has a TOOL marker
\* and an 'ARGS:' marker followed by a well-formed JSON object, also one with
\* a nested object or with a string value that holds '}', the parser returns
\* the tool call whose arguments are that JSON object.
C35_ArgsObjectParsed ==
    (ParsedReply /\ HasToolAndObject(replies[calls].v)) =>
        /\ IsToolCall(directives[calls])
        /\ \A object \in ObjectsAfterArgs(replies[calls].v) :
               directives[calls].tool_args.v = JsonLoads(object)

\* the same for the objects that hold no closing brace before their own
C35_FlatArgsObjectParsed ==
    (ParsedReply /\ HasToolAndObject(replies[calls].v)
         /\ \A object \in ObjectsAfterArgs(replies[calls].v) :
                \A i \in 1..(Len(object) - 1) : object[i] # "}") =>
        /\ IsToolCall(directives[calls])
        /\ \A object \in ObjectsAfterArgs(replies[calls].v) :
               directives[calls].tool_args.v = JsonLoads(object)


\* the two runs are at the same place with the same transcript, the same
\* parsed reply and the same completion calls and dispatches behind them
TwinInStep ==
    /\ threads[Package].at = threads[Standalone].at
    /\ frames[Package].messages = frames[Standalone].messages
    /\ frames[Package].iteration = frames[Standalone].iteration
    /\ frames[Package].response = frames[Standalone].response
    /\ frames[Package].directive = frames[Standalone].directive

\* C36: run side by side on the same query, budget, completion outcomes and
\* tool behaviours, the agent of agent.py and the agent of
\* web_app_standalone.py make the same calls with the same transcripts, the
\* same dispatches, and return the same text
C36_StandaloneEquivalent ==
    /\ TwinInStep
    /\ frames[Package].result = frames[Standalone].result

\* the two agree on everything but the text returned when the budget is
\* exhausted
C36_EquivalentButBudgetText ==
    /\ TwinInStep
    /\ \/ frames[Package].result = frames[Standalone].result
       \/ /\ frames[Package].result = Some(BudgetText(max_iterations))
          /\ frames[Standalone].result =
                 Some(BudgetText_standalone(max_iterations))


\* the magnitude of event i of the feed: 0 when the feed gives none
FeedMagnitude(i) ==
    IF quake.fetched.features[i].mag.some
    THEN quake.fetched.features[i].mag.v ELSE 0

\* the place of event i of the feed, as a text
FeedPlace(i) ==
    IF quake.fetched.features[i].place.present
    THEN PlaceText([some |-> quake.fetched.features[i].place.some,
                    v |-> quake.fetched.features[i].place.v])
    ELSE PlaceUnknown

\* the feed gives event i a null magnitude
NullMagnitude(i) ==
    /\ quake.fetched.features[i].mag.present
    /\ ~quake.fetched.features[i].mag.some

\* the feed gives event i a null place
NullPlace(i) ==
    /\ quake.fetched.features[i].place.present
    /\ ~quake.fetched.features[i].place.some

\* region is 'all'
AllRegions == Lower(quake.region) = RegionAll

\* the events of the feed that match the arguments of the call
Matching ==
    {i \in 1..Len(quake.fetched.features) :
        /\ ~NullMagnitude(i)
        /\ FeedMagnitude(i) >= quake.min_magnitude
        /\ \/ AllRegions
           \/ ~NullPlace(i)
                  /\ Contains(Lower(quake.region), Lower(FeedPlace(i)))}

\* a call returned, and the feed had arrived
FeedListed == quake.at = "done" /\ quake.fetched.raised = ""

\* the events that the returned text lists, if it is a listing
ListedEvents == Listed(quake.earthquakes)

Least(a, b) == IF a < b THEN a ELSE b

\* the text is the listing of at most 5 events in non-increasing magnitude
\* order, each a matching event of the feed, and they are the
\* highest-magnitude matching events
ListsTheStrongest ==
    /\ quake.value = FoundText(Cardinality(Matching), quake.min_magnitude,
                               ListedEvents)
    /\ Len(ListedEvents) = Least(ListLimit, Cardinality(Matching))
    /\ \A k \in 1..(Len(ListedEvents) - 1) :
           ListedEvents[k].magnitude >= ListedEvents[k + 1].magnitude
    /\ \A k \in 1..Len(ListedEvents) :
           /\ ListedEvents[k].magnitude >= quake.min_magnitude
           /\ AllRegions
                  \/ Contains(Lower(quake.region),
                              Lower(PlaceText(ListedEvents[k].location)))
           /\ \E i \in Matching :
                  /\ FeedMagnitude(i) = ListedEvents[k].magnitude
                  /\ FeedPlace(i) = PlaceText(ListedEvents[k].location)
    /\ \A m \in 0..3 :
           Cardinality({k \in 1..Len(ListedEvents) :
                            ListedEvents[k].magnitude >= m})
               = Least(ListLimit,
                       Cardinality({i \in Matching : FeedMagnitude(i) >= m}))

\* C37: for every feed, the returned text lists at most 5 events, in
\* non-increasing magnitude order, each a matching event, and they are the
\* highest-magnitude matching events; when no event matches, the text is the
\* 'none found' text; an entry with a missing or null magnitude does not
\* prevent the listing
C37_ListsStrongestMatching ==
    FeedListed =>
        IF Matching = {}
        THEN quake.value = NoneFoundText(quake.min_magnitude, quake.region)
        ELSE ListsTheStrongest

\* some entry of the feed has a null magnitude or a null place
NullEntry ==
    \E i \in 1..Len(quake.fetched.features) : NullMagnitude(i) \/ NullPlace(i)

\* the same, for the feeds without a null magnitude or place
C37_ListsStrongestMatchingWithoutNull ==
    (FeedListed /\ ~NullEntry) =>
        IF Matching = {}
        THEN quake.value = NoneFoundText(quake.min_magnitude, quake.region)
        ELSE ListsTheStrongest

====
